---- MODULE Spec2Model ----
(***************************************************************************)
(* A model of the code generation back end of Nuitka (nuitka/codegen and   *)
(* nuitka/tree): the try/finally and try/except lowering and the code it   *)
(* emits, the duplicate-generation marker and the cleanup whitelist, the   *)
(* constant pool, the chained-comparison reformulation, and the container  *)
(* literal lowering.  Each part has its own specification; the variables   *)
(* of the other parts stay at their idle value.                            *)
(***************************************************************************)
EXTENDS Integers, Sequences, FiniteSets, TLC

VARIABLES
    \* --- try/finally lowering and the emitted program (SpecTry) ---
    phase,          \* "idle" | "generate" | "run" | "done" | "failed"
    python_version, \* Utils.python_version
    statement,      \* the statement sequence of the function body
    gen,            \* the generator's state: context, lines, locals
    agenda,         \* the generator's work still to do
    code,           \* the emitted lines, Seq of instructions
    context,        \* the Context after generation
    pc,             \* position in the emitted code
    regs,           \* C locals of the emitted function: temp name -> value
    exception_type, \* the live exception slot (0 is NULL)
    outcome,        \* how the emitted function was left
    runs,           \* ghost: construct -> finally bodies started since entry
    exited,         \* ghost: the constructs left by the last step
    taken,          \* ghost: the dispatch exit taken by the last step
    \* --- the code_generated marker (SpecMark) ---
    code_generated, \* the nodes that carry the code_generated attribute
    generations,    \* ghost: node -> times its code was generated
    mark_agenda,    \* the nodes the running request still has to generate
    mark_outcome,   \* "idle" | "generating" | "assertion_error"
    \* --- the cleanup set and its whitelist (SpecCleanup) ---
    cleanup,        \* context.getCleanupTempnames()
    temp_whitelist, \* the module global _temp_whitelist
    temp_names,     \* temp names allocated so far
    clean_agenda,   \* the generator's work still to do
    clean_outcome,  \* "idle" | "generating" | "done" | "assertion_error"
    regions,        \* ghost: per open try/finally expression, the whitelist
                    \* before it and the whitelist it captured
    region_end,     \* ghost: the whitelist before and after the region that
                    \* ended in the last step
    boundary,       \* ghost: the statement boundary reached in the last step
    \* --- the constant pool (SpecConst) ---
    constants,      \* context.getConstants(): HashableConstant -> identifier
    contained_constants, \* the_contained_constants
    const_lines,    \* the emitted constant accesses
    const_cleanup,  \* the cleanup set of the accessing context
    \* --- the comparison chain (SpecCmp) ---
    cmp_phase,      \* "idle" | "source" | "evaluate" | "done" | "unbound"
    cmp_operands,   \* the values the operand expressions evaluate to
    cmp_comparators,\* the comparators between them
    cmp_tree,       \* the node buildComparisonNode returned
    cmp_work,       \* the evaluation still to do
    cmp_stack,      \* the values computed and not yet consumed
    cmp_temps,      \* the temp variables of the comparison's scope
    cmp_log,        \* ghost: the operands evaluated, in order
    \* --- container literals and slices (SpecLit) ---
    lit_phase,      \* "idle" | "source" | "generate" | "run" | "done"
    lit_node,       \* the expression generated
    lit_todo,       \* the elements still to generate
    lit_code,       \* the emitted lines
    lit_cleanup,    \* the cleanup set of the context
    lit_pc,         \* position in the emitted code
    lit_error,      \* the error indicator of the running program
    lit_null,       \* the C locals that hold NULL
    lit_outcome,    \* how the emitted code was left
    \* --- the try/except re-formulation (SpecReform) ---
    rx_phase,       \* "idle" | "handlers" | "built" | "syntax_error"
    rx_source,      \* the try statement of the source
    rx_handlers,    \* handlers: (exception_types, handler_body) so far
    rx_error,       \* the syntax error raised
    rx_node,        \* the node returned
    \* --- module code generation, twice (SpecModule) ---
    mg_phase,       \* "idle" | "collect" | "module" | "done"
    mg_run,         \* which generation of the module this is
    used_functions, \* module.getUsedFunctions()
    helper_codes,   \* context.getHelperCodes(), in iteration order
    declarations,   \* context.getDeclarations(), in iteration order
    mg_constants,   \* context.getConstants(), in iteration order
    the_contained_constants, \* the global of ConstantCodes
    mg_output,      \* the generated code of each generation
    \* --- the fused next-or-break lowering against the general one (SpecNext) ---
    nx_phase,       \* "idle" | "source" | "built" | "generated" | "running" | "left"
    nx_input,       \* the arguments of makeTryExceptSingleHandlerNode
    nx_statement,   \* the try/except statement built
    nx_lowering,    \* "fused" | "general": what generateTryExceptCode emitted
    nx_event,       \* what the tried statement did in this iteration
    nx_emitted,     \* how the emitted code continued
    nx_general,     \* how the general lowering continues for the same event
    \* --- the conditional expression (SpecCondExpr) ---
    ce_phase,       \* "idle" | "start" | "yes" | "no" | "join" | "run" | "joined"
    ce_before,      \* the expression, and the cleanup set and targets before it
    ce_context,     \* cleanup set, true and false targets, label count
    ce_locals,      \* the locals of the conditional case
    ce_real_emit,   \* the lines emitted to the caller's emit
    ce_emit,        \* the lines collected by the SourceCodeCollector
    ce_pc,          \* the line of the emitted code control is at
    ce_path,        \* which branch the run took
    ce_refs,        \* references the destination holds at run time
    \* --- the initialization of the constants (SpecInit) ---
    ci_pool,        \* the constants of the context: key and identifier
    ci_contained,   \* the_contained_constants of ConstantCodes
    ci_done,        \* the global done of ConstantCodes
    ci_emitted,     \* the statements emitted by all the calls so far
    ci_calls,       \* the calls of getConstantsInitCode so far
    \* --- the re-formulated try/except statement run (SpecReform) ---
    rr_phase,       \* "idle" | "ran"
    rr_input,       \* how the tried block, the handlers and the else block behave
    rr_result,      \* how the statement ended and what it ran, in order
    \* --- the branch code of a condition (SpecCondition) ---
    gc_phase,       \* "source" | "generated" | "ran"
    gc_condition,   \* the condition expression
    gc_inverted,    \* the argument inverted
    gc_context,     \* the true and false branch targets and the label count
    gc_code,        \* the lines emitted
    gc_calls,       \* per call: the targets at entry, at the branch code, at exit
    gc_outcome,     \* the target the emitted code has left to
    \* --- the operands of a slice operation (SpecSlice) ---
    sl_phase,       \* "source" | "generated" | "ran"
    sl_operation,   \* "lookup" | "assign" | "del"
    sl_version,     \* the python version compiled for
    sl_lower,       \* the lower bound expression
    sl_upper,       \* the upper bound expression
    sl_code,        \* the lines emitted
    sl_trace        \* the operand expressions evaluated by the run, in order

tryVars == << phase, python_version, statement, gen, agenda, code, context, pc, regs,
              exception_type, outcome, runs, exited, taken >>

markVars == << code_generated, generations, mark_agenda, mark_outcome >>

cleanVars == << cleanup, temp_whitelist, temp_names, clean_agenda, clean_outcome,
                regions, region_end, boundary >>

constVars == << constants, contained_constants, const_lines, const_cleanup >>

cmpVars == << cmp_phase, cmp_operands, cmp_comparators, cmp_tree, cmp_work,
              cmp_stack, cmp_temps, cmp_log >>

litVars == << lit_phase, lit_node, lit_todo, lit_code, lit_cleanup, lit_pc,
              lit_error, lit_null, lit_outcome >>

reformVars == << rx_phase, rx_source, rx_handlers, rx_error, rx_node >>

modVars == << mg_phase, mg_run, used_functions, helper_codes, declarations, mg_constants, the_contained_constants, mg_output >>

nextVars == << nx_phase, nx_input, nx_statement, nx_lowering, nx_event, nx_emitted, nx_general >>

condVars == << ce_phase, ce_before, ce_context, ce_locals, ce_real_emit, ce_emit, ce_pc, ce_path, ce_refs >>

initVars == << ci_pool, ci_contained, ci_done, ci_emitted, ci_calls >>

runVars == << rr_phase, rr_input, rr_result >>

gcVars == << gc_phase, gc_condition, gc_inverted, gc_context, gc_code, gc_calls, gc_outcome >>

sliceVars == << sl_phase, sl_operation, sl_version, sl_lower, sl_upper, sl_code, sl_trace >>

vars == << tryVars, markVars, cleanVars, constVars, cmpVars, litVars, reformVars, modVars, nextVars, condVars, initVars, runVars, gcVars, sliceVars >>

\* The idle values of each part, while another part runs.
IdleTry ==
    /\ phase = "idle"
    /\ python_version = 0
    /\ statement = << >>
    /\ gen = << >>
    /\ agenda = << >>
    /\ code = << >>
    /\ context = << >>
    /\ pc = 0
    /\ regs = << >>
    /\ exception_type = 0
    /\ outcome = "idle"
    /\ runs = << >>
    /\ exited = {}
    /\ taken = << >>

IdleMark ==
    /\ code_generated = {}
    /\ generations = << >>
    /\ mark_agenda = << >>
    /\ mark_outcome = "idle"

IdleClean ==
    /\ cleanup = {}
    /\ temp_whitelist = {}
    /\ temp_names = 0
    /\ clean_agenda = << >>
    /\ clean_outcome = "idle"
    /\ regions = << >>
    /\ region_end = [ended |-> FALSE, previous |-> {}, after |-> {}]
    /\ boundary = [at |-> "none"]

IdleConst ==
    /\ constants = {}
    /\ contained_constants = {}
    /\ const_lines = << >>
    /\ const_cleanup = {}

IdleCmp ==
    /\ cmp_phase = "idle"
    /\ cmp_operands = << >>
    /\ cmp_comparators = << >>
    /\ cmp_tree = << >>
    /\ cmp_work = << >>
    /\ cmp_stack = << >>
    /\ cmp_temps = << >>
    /\ cmp_log = << >>

IdleLit ==
    /\ lit_phase = "idle"
    /\ lit_node = << >>
    /\ lit_todo = << >>
    /\ lit_code = << >>
    /\ lit_cleanup = {}
    /\ lit_pc = 0
    /\ lit_error = FALSE
    /\ lit_null = {}
    /\ lit_outcome = "idle"

IdleReform ==
    /\ rx_phase = "idle"
    /\ rx_source = << >>
    /\ rx_handlers = << >>
    /\ rx_error = [reason |-> "", lineno |-> 0]
    /\ rx_node = [kind |-> "none", ix |-> 0, subs |-> << >>]

IdleModule ==
    /\ mg_phase = "idle"
    /\ mg_run = 0
    /\ used_functions = << >>
    /\ helper_codes = << >>
    /\ declarations = << >>
    /\ mg_constants = << >>
    /\ the_contained_constants = << >>
    /\ mg_output = << >>

IdleNext ==
    /\ nx_phase = "idle"
    /\ nx_input = << >>
    /\ nx_statement = << >>
    /\ nx_lowering = ""
    /\ nx_event = ""
    /\ nx_emitted = ""
    /\ nx_general = ""

IdleCondExpr ==
    /\ ce_phase = "idle"
    /\ ce_before = << >>
    /\ ce_context = << >>
    /\ ce_locals = << >>
    /\ ce_real_emit = << >>
    /\ ce_emit = << >>
    /\ ce_pc = 0
    /\ ce_path = ""
    /\ ce_refs = 0

IdleInit ==
    /\ ci_pool = {}
    /\ ci_contained = {}
    /\ ci_done = {}
    /\ ci_emitted = << >>
    /\ ci_calls = 0

IdleRun ==
    /\ rr_phase = "idle"
    /\ rr_input = << >>
    /\ rr_result = << >>

IdleCondition ==
    /\ gc_phase = "idle"
    /\ gc_condition = << >>
    /\ gc_inverted = FALSE
    /\ gc_context = << >>
    /\ gc_code = << >>
    /\ gc_calls = << >>
    /\ gc_outcome = << >>

IdleSlice ==
    /\ sl_phase = "idle"
    /\ sl_operation = ""
    /\ sl_version = 0
    /\ sl_lower = << >>
    /\ sl_upper = << >>
    /\ sl_code = << >>
    /\ sl_trace = << >>

(***************************************************************************)
(* Jump targets.  A context target is a label, None, or for loop targets   *)
(* inside a try/finally the tuple (label, indicator name).                 *)
(***************************************************************************)
NoneT == [t |-> "none", n |-> "", i |-> 0, ind |-> 0]

Label(n, i) == [t |-> "label", n |-> n, i |-> i, ind |-> 0]

TupleT(label, name) == [t |-> "tuple", n |-> label.n, i |-> label.i, ind |-> name]

IsTuple(target) == target.t = "tuple"

\* The targets a try construct installs and has to put back.
Targets(ctx) ==
    << ctx.exception_escape, ctx.exception_not_occured, ctx.return_target,
       ctx.loop_break, ctx.loop_continue >>

\* Ghost: the try constructs whose generation ended with every target as it
\* was at the start, and those that ended with a target changed.
NoteTargets(fs) ==
    IF Targets(fs.ctx) = fs.L.entry_targets
    THEN [fs EXCEPT !.ctx.restored = @ \cup {fs.L.construct}]
    ELSE [fs EXCEPT !.ctx.unrestored = @ \cup {fs.L.construct}]

TupleLabel(target) == Label(target.n, target.i)

(***************************************************************************)
(* Statement nodes of the input tree.  a and b are the child statement     *)
(* sequences (tried/final, tried/handling, yes/no, loop body); raises is   *)
(* the node's may-raise fact for its own expression.                       *)
(***************************************************************************)
Node(kind, a, b, raises) ==
    [kind |-> kind, a |-> a, b |-> b, raises |-> raises, public_exc |-> FALSE]

ExprOnly(raises) == Node("expr", << >>, << >>, raises)
Return(raises) == Node("return", << >>, << >>, raises)
BreakLoop == Node("break", << >>, << >>, FALSE)
ContinueLoop == Node("continue", << >>, << >>, FALSE)
Raise == Node("raise", << >>, << >>, TRUE)
Reraise == Node("reraise", << >>, << >>, TRUE)
AssignNext == Node("assign_next", << >>, << >>, TRUE)
Loop(body) == Node("loop", body, << >>, FALSE)
Conditional(yes, no) == Node("cond", yes, no, FALSE)
TryFinally(tried, final) == Node("tryfinally", tried, final, FALSE)
TryExcept(tried, handling) == Node("tryexcept", tried, handling, FALSE)
PublishException == Node("publish_exception", << >>, << >>, FALSE)
\* A try/except whose handler publishes the exception: public_exc is set and
\* the handling starts with the publication.
TryExceptPublished(tried, handling) ==
    [TryExcept(tried, << PublishException >> \o handling) EXCEPT !.public_exc = TRUE]

Nested == {"tryfinally", "tryexcept", "cond"}

\* The precomputed static facts of a statement sequence.
RECURSIVE mayReturn(_)
mayReturn(block) ==
    \E k \in 1..Len(block) :
        \/ block[k].kind = "return"
        \/ /\ block[k].kind \in Nested \cup {"loop"}
           /\ (mayReturn(block[k].a) \/ mayReturn(block[k].b))

RECURSIVE mayBreak(_)
mayBreak(block) ==
    \E k \in 1..Len(block) :
        \/ block[k].kind = "break"
        \/ /\ block[k].kind \in Nested
           /\ (mayBreak(block[k].a) \/ mayBreak(block[k].b))

RECURSIVE mayContinue(_)
mayContinue(block) ==
    \E k \in 1..Len(block) :
        \/ block[k].kind = "continue"
        \/ /\ block[k].kind \in Nested
           /\ (mayContinue(block[k].a) \/ mayContinue(block[k].b))

RECURSIVE mayRaiseException(_)
mayRaiseException(block) ==
    \E k \in 1..Len(block) :
        \/ block[k].raises
        \/ block[k].kind = "loop"
        \/ /\ block[k].kind \in Nested
           /\ (mayRaiseException(block[k].a) \/ mayRaiseException(block[k].b))

\* A statement that never hands control to its successor.
RECURSIVE isStatementAborting(_)
isStatementAborting(block) ==
    /\ Len(block) > 0
    /\ LET last == block[Len(block)] IN
        \/ last.kind \in {"return", "break", "continue", "raise", "reraise"}
        \/ last.kind = "loop" /\ ~mayBreak(last.a)
        \/ /\ last.kind = "cond"
           /\ isStatementAborting(last.a) /\ isStatementAborting(last.b)
        \/ last.kind = "tryfinally"
           /\ (isStatementAborting(last.a) \/ isStatementAborting(last.b))

needsContinueHandling(stmt) == mayContinue(stmt.a)
needsBreakHandling(stmt) == mayBreak(stmt.a)
needsReturnHandling(stmt) == mayReturn(stmt.a)
\* The return value held while the final block runs is released by a return
\* in the final block.
needsReturnValueRelease(stmt) == mayReturn(stmt.a) /\ mayReturn(stmt.b)
\* Publishing to the handler is an attribute of the try/except statement; the
\* try/finally statements of the model hold the exception locally.
needsExceptionPublish(stmt) == stmt.public_exc

(***************************************************************************)
(* The emission context and the emitted lines.                             *)
(***************************************************************************)
FunctionExceptionExit == Label("function_exception_exit", 0)
FunctionReturnExit == Label("function_return_exit", 0)

\* The temp name of the return value slot.
tmp_return_value == 0

NewContext(version) ==
    [ python_version        |-> version,
      label_count           |-> 0,
      temp_count            |-> 0,
      exception_escape      |-> FunctionExceptionExit,
      exception_not_occured |-> NoneT,
      return_target         |-> FunctionReturnExit,
      loop_break            |-> NoneT,
      loop_continue         |-> NoneT,
      true_target           |-> NoneT,
      false_target          |-> NoneT,
      return_release_mode   |-> FALSE,
      exception_published   |-> FALSE,
      nest                  |-> {},
      restored              |-> {},
      unrestored            |-> {} ]

\* The locals of one generator call: generateTryFinallyCode,
\* generateTryExceptCode, generateLoopCode or generateBranchCode.
NoLocals ==
    [ old_escape               |-> NoneT,
      tried_handler_escape     |-> NoneT,
      handler_start_target     |-> NoneT,
      continue_name            |-> 0,
      break_name               |-> 0,
      old_continue_target      |-> NoneT,
      old_break_target         |-> NoneT,
      old_return               |-> NoneT,
      old_return_value_release |-> FALSE,
      keeper                   |-> 0,
      tried_lineno_name        |-> 0,
      final_end_target         |-> NoneT,
      old_ok                   |-> NoneT,
      no_exception             |-> NoneT,
      old_published            |-> FALSE,
      loop_start_label         |-> NoneT,
      loop_end_label           |-> NoneT,
      old_loop_break           |-> NoneT,
      old_loop_continue        |-> NoneT,
      true_target              |-> NoneT,
      false_target             |-> NoneT,
      end_target               |-> NoneT,
      entry_targets            |-> << >>,
      construct                |-> 0,
      old_nest                 |-> {} ]

\* Generation state: the context, the lines emitted so far, whether the
\* generator itself failed, the locals of the call in progress and those of
\* the calls around it.
Generation(ctx) ==
    [ctx |-> ctx, code |-> << >>, err |-> FALSE, L |-> NoLocals, stack |-> << >>]

\* A generator call begins with fresh locals and ends with its caller's.
EnterCall(fs) ==
    [fs EXCEPT !.stack = << fs.L >> \o @,
               !.L = [NoLocals EXCEPT !.entry_targets = Targets(fs.ctx),
                                      !.construct = fs.ctx.label_count + 1,
                                      !.old_nest = fs.ctx.nest]]

LeaveCall(fs) ==
    [fs EXCEPT !.L = Head(fs.stack), !.stack = Tail(@),
               !.ctx.nest = fs.L.old_nest]

\* What is left to generate: the statement or block, and the point of its
\* generator at which work resumes.
Task(do, stmt) == [do |-> do, stmt |-> stmt]

Block(statements) == Node("block", statements, << >>, FALSE)

\* The result of one generator step: the new state and the work it calls for.
Result(fs, todo) == [fs |-> fs, todo |-> todo]


Ins(op, tgt, tgt2, var) ==
    [op |-> op, tgt |-> tgt, tgt2 |-> tgt2, var |-> var, tfs |-> {}]

emit(fs, ins) ==
    [fs EXCEPT !.code = Append(@, [ins EXCEPT !.tfs = fs.ctx.nest])]

allocateLabel(fs, name) ==
    [ fs    |-> [fs EXCEPT !.ctx.label_count = @ + 1],
      label |-> Label(name, fs.ctx.label_count + 1) ]

allocateTempName(fs) ==
    [ fs   |-> [fs EXCEPT !.ctx.temp_count = @ + 1],
      name |-> fs.ctx.temp_count + 1 ]

\* One numbered keeper triple per call; the triple is one slot of the model.
getExceptionKeeperVariables(fs) == allocateTempName(fs)

\* "goto %s;" names a label: None or a tuple is a failure of the generator.
getGotoCode(fs, target) ==
    IF target.t = "label"
    THEN emit(fs, Ins("goto", target, NoneT, 0))
    ELSE [fs EXCEPT !.err = TRUE]

getLabelCode(fs, label) ==
    IF label.t = "label"
    THEN emit(fs, Ins("label", label, NoneT, 0))
    ELSE [fs EXCEPT !.err = TRUE]

\* The jump to the label of a target, its indicator left alone.
JumpToLabelOnly(fs, target) ==
    getGotoCode(fs, IF IsTuple(target) THEN TupleLabel(target) ELSE target)

\* break and continue set the indicator of a tuple target before the jump.
JumpToLoopTarget(fs, target) ==
    IF IsTuple(target)
    THEN getGotoCode(emit(fs, Ins("set_true", NoneT, NoneT, target.ind)),
                     TupleLabel(target))
    ELSE getGotoCode(fs, target)

getLoopBreakCode(fs) == JumpToLoopTarget(fs, fs.ctx.loop_break)

getLoopContinueCode(fs) == JumpToLoopTarget(fs, fs.ctx.loop_continue)

(***************************************************************************)
(* The statement code generator.                                           *)
(***************************************************************************)
\* An expression evaluated into a temp name: a support call whose failure
\* branches to the exception escape, when the expression may raise.
generateExpressionCode(fs, raises, op) ==
    emit(fs, Ins(op, IF raises THEN fs.ctx.exception_escape ELSE NoneT, NoneT, 0))

generateStatementOnlyCode(stmt, fs) ==
    generateExpressionCode(fs, stmt.raises, "eval")

generateReturnCode(stmt, fs) ==
    LET goto_return(f) == getGotoCode(f, f.ctx.return_target)
    IN  goto_return(generateExpressionCode(
            IF fs.ctx.return_release_mode
            THEN emit(fs, Ins("decref_return_value", NoneT, NoneT, tmp_return_value))
            ELSE fs,
            stmt.raises, "eval_return_value"))

\* Every raise form ends in a jump to the exception escape.
generateRaiseCode(stmt, fs) ==
    IF stmt.kind = "reraise"
    THEN emit(fs, Ins("reraise_current", fs.ctx.exception_escape, NoneT, 0))
    ELSE emit(fs, Ins("raise", fs.ctx.exception_escape, NoneT, 0))

\* generateBranchCode up to the yes branch: the three labels, the condition
\* under the true and false targets, and the label of the yes branch.
BranchCondition(stmt, fs) ==
    LET targets(t, f, e) ==
            [e.fs EXCEPT !.L.true_target = t.label,
                         !.L.false_target = f.label,
                         !.L.end_target = e.label,
                         !.ctx.true_target = t.label,
                         !.ctx.false_target = f.label]
        no(t, f) == targets(t, f, allocateLabel(f.fs, "branch_end"))
        yes(t) == no(t, allocateLabel(t.fs, "branch_no"))
        condition(f) ==
            emit(f, Ins("branch", f.ctx.true_target, f.ctx.false_target, 0))
        restore(f) ==
            [f EXCEPT !.ctx.true_target = fs.ctx.true_target,
                      !.ctx.false_target = fs.ctx.false_target]
        yes_label(f) == getLabelCode(f, f.L.true_target)
    IN  yes_label(restore(condition(yes(allocateLabel(fs, "branch_yes")))))

\* Between the branches.
BranchNo(stmt, fs) ==
    IF stmt.b # << >>
    THEN getLabelCode(getGotoCode(fs, fs.L.end_target), fs.L.false_target)
    ELSE fs

BranchEnd(stmt, fs) ==
    IF stmt.b # << >>
    THEN getLabelCode(fs, fs.L.end_target)
    ELSE getLabelCode(fs, fs.L.false_target)

generateBranchCode(task, fs) ==
    LET stmt == task.stmt IN
    CASE task.do = "statement" ->
            Result(BranchCondition(stmt, EnterCall(fs)),
                   << Task("sequence", Block(stmt.a)), Task("branch_no", stmt),
                      Task("sequence", Block(stmt.b)), Task("branch_end", stmt) >>)
      [] task.do = "branch_no" -> Result(BranchNo(stmt, fs), << >>)
      [] task.do = "branch_end" -> Result(LeaveCall(BranchEnd(stmt, fs)), << >>)

\* generateLoopCode up to the loop body.
LoopStart(stmt, fs) ==
    LET end(s) ==
            IF ~isStatementAborting(<< stmt >>)
            THEN allocateLabel(s.fs, "loop_end")
            ELSE [fs |-> s.fs, label |-> NoneT]
        labels(s, e) ==
            [e.fs EXCEPT !.L.loop_start_label = s.label,
                         !.L.loop_end_label = e.label]
        start(s) == labels(s, end(s))
        start_label(f) == getLabelCode(f, f.L.loop_start_label)
        targets(f) ==
            [f EXCEPT !.L.old_loop_break = f.ctx.loop_break,
                      !.L.old_loop_continue = f.ctx.loop_continue,
                      !.ctx.loop_break = f.L.loop_end_label,
                      !.ctx.loop_continue = f.L.loop_start_label]
    IN  targets(start_label(start(allocateLabel(fs, "loop_start"))))

\* The end of the loop with the targets of the body left in the context.
LoopEndKeepsTargets(stmt, fs) ==
    LET threading(f) ==
            emit(f, Ins("consider_threading", f.ctx.exception_escape, NoneT, 0))
        again(f) == getGotoCode(f, f.L.loop_start_label)
        end_label(f) ==
            IF f.L.loop_end_label # NoneT
            THEN getLabelCode(f, f.L.loop_end_label)
            ELSE f
    IN  end_label(again(threading(fs)))

\* generateLoopCode after the loop body.
LoopEnd(stmt, fs) ==
    LET restore(f) ==
            [f EXCEPT !.ctx.loop_break = f.L.old_loop_break,
                      !.ctx.loop_continue = f.L.old_loop_continue]
        threading(f) ==
            emit(f, Ins("consider_threading", f.ctx.exception_escape, NoneT, 0))
        again(f) == getGotoCode(f, f.L.loop_start_label)
        end_label(f) ==
            IF f.L.loop_end_label # NoneT
            THEN getLabelCode(f, f.L.loop_end_label)
            ELSE f
    IN  end_label(again(threading(restore(fs))))

generateLoopCode(task, fs) ==
    LET stmt == task.stmt IN
    CASE task.do = "statement" ->
            Result(LoopStart(stmt, EnterCall(fs)),
                   << Task("sequence", Block(stmt.a)), Task("loop_end", stmt) >>)
      [] task.do = "loop_end" -> Result(LeaveCall(LoopEnd(stmt, fs)), << >>)

(***************************************************************************)
(* generateTryFinallyCode, statement form, in the order of its source.     *)
(***************************************************************************)
tried_block_may_raise(stmt) == mayRaiseException(stmt.a)

final_block_may_raise(stmt) ==
    stmt.b # << >> /\ mayRaiseException(stmt.b) /\ ~needsExceptionPublish(stmt)

final_block_may_return(stmt) == stmt.b # << >> /\ mayReturn(stmt.b)

final_block_may_break(stmt) == stmt.b # << >> /\ mayBreak(stmt.b)

final_block_may_continue(stmt) == stmt.b # << >> /\ mayContinue(stmt.b)

\* The installation without the handler start label: exits of the tried block
\* keep the targets of the enclosing scope.
InstallEscapeOnly(stmt, fs) ==
    LET escape(h) ==
            [h.fs EXCEPT !.L.old_escape = fs.ctx.exception_escape,
                         !.L.tried_handler_escape = h.label,
                         !.L.old_return = fs.ctx.return_target,
                         !.L.old_break_target = fs.ctx.loop_break,
                         !.L.old_continue_target = fs.ctx.loop_continue,
                         !.ctx.exception_escape = h.label]
    IN  escape(allocateLabel(fs, "try_finally_handler"))

\* The tried block's escape, the handler start label, and the indicators
\* and redirected targets of continue, break and return.
TryFinallyInstallTargets(stmt, fs) ==
    LET escape(h) ==
            [h.fs EXCEPT !.L.old_escape = fs.ctx.exception_escape,
                         !.L.tried_handler_escape = h.label,
                         !.ctx.exception_escape = h.label]
        start(s) == [s.fs EXCEPT !.L.handler_start_target = s.label]
        handler_start(f) ==
            IF \/ needsContinueHandling(stmt)
               \/ needsBreakHandling(stmt)
               \/ needsReturnHandling(stmt)
            THEN start(allocateLabel(f, "try_finally_handler_start"))
            ELSE f
        continue_target(e, name) ==
            [e EXCEPT !.L.continue_name = name,
                      !.L.old_continue_target = e.ctx.loop_continue,
                      !.ctx.loop_continue = TupleT(e.L.handler_start_target, name)]
        continue_indicator(c) ==
            continue_target(emit(c.fs, Ins("set_false", NoneT, NoneT, c.name)), c.name)
        continue_handling(f) ==
            IF needsContinueHandling(stmt)
            THEN continue_indicator(allocateTempName(f))
            ELSE f
        break_target(e, name) ==
            [e EXCEPT !.L.break_name = name,
                      !.L.old_break_target = e.ctx.loop_break,
                      !.ctx.loop_break = TupleT(e.L.handler_start_target, name)]
        break_indicator(b) ==
            break_target(emit(b.fs, Ins("set_false", NoneT, NoneT, b.name)), b.name)
        break_handling(f) ==
            IF needsBreakHandling(stmt)
            THEN break_indicator(allocateTempName(f))
            ELSE f
        return_handling(f) ==
            IF needsReturnHandling(stmt)
            THEN [f EXCEPT !.L.old_return = f.ctx.return_target,
                           !.ctx.return_target = f.L.handler_start_target]
            ELSE f
    IN  return_handling(break_handling(continue_handling(handler_start(
            escape(allocateLabel(fs, "try_finally_handler"))))))

\* The tried block, and the handler start label the redirected exits reach.
\* The tried block begins.
TryFinallyTriedStart(stmt, fs) ==
    emit(fs, Ins("comment_tried", NoneT, NoneT, 0))

\* After the tried block: the handler start label the redirected exits reach.
TryFinallyTriedEnd(stmt, fs) ==
    LET start_label(f) ==
            IF f.L.handler_start_target # NoneT
            THEN getLabelCode(f, f.L.handler_start_target)
            ELSE f
    IN  start_label(IF needsReturnHandling(stmt) /\ fs.ctx.python_version >= 330
                    THEN emit(fs, Ins("set_null", NoneT, NoneT, tmp_return_value))
                    ELSE fs)

\* template_final_handler_start: no exception on the way that falls in, the
\* error target's label, then the live exception moves to the keeper.
template_final_handler_start(fs, final_error_target, keeper) ==
    emit(getLabelCode(emit(fs, Ins("set_exception_null", NoneT, NoneT, 0)),
                      final_error_target),
         Ins("keep_exception", NoneT, NoneT, keeper))

TryFinallyHandlerStart(stmt, fs) ==
    LET kept(k) ==
            template_final_handler_start([k.fs EXCEPT !.L.keeper = k.name],
                                         k.fs.ctx.exception_escape, k.name)
        handler(f) ==
            IF ~needsExceptionPublish(stmt)
            THEN kept(getExceptionKeeperVariables(f))
            ELSE getLabelCode(emit(f, Ins("set_exception_null", NoneT, NoneT, 0)),
                              f.ctx.exception_escape)
    IN  IF tried_block_may_raise(stmt)
        THEN handler(emit(fs, Ins("comment_final", NoneT, NoneT, 0)))
        ELSE fs

\* The restore that leaves the loop continue target as the tried block had it.
RestoreTriedKeepContinue(stmt, fs) ==
    LET escape(f) == [f EXCEPT !.ctx.exception_escape = f.L.old_escape]
        break_target(f) ==
            IF needsBreakHandling(stmt)
            THEN [f EXCEPT !.ctx.loop_break = f.L.old_break_target]
            ELSE f
        return_target(f) ==
            IF needsReturnHandling(stmt)
            THEN [f EXCEPT !.ctx.return_target = f.L.old_return]
            ELSE f
    IN  return_target(break_target(escape(fs)))

\* Restore the handlers changed during the tried block.
TryFinallyRestoreTried(stmt, fs) ==
    LET escape(f) == [f EXCEPT !.ctx.exception_escape = f.L.old_escape]
        continue_target(f) ==
            IF needsContinueHandling(stmt)
            THEN [f EXCEPT !.ctx.loop_continue = f.L.old_continue_target]
            ELSE f
        break_target(f) ==
            IF needsBreakHandling(stmt)
            THEN [f EXCEPT !.ctx.loop_break = f.L.old_break_target]
            ELSE f
        return_target(f) ==
            IF needsReturnHandling(stmt)
            THEN [f EXCEPT !.ctx.return_target = f.L.old_return]
            ELSE f
        release_mode(f) ==
            [f EXCEPT !.L.old_return_value_release = f.ctx.return_release_mode,
                      !.ctx.return_release_mode = needsReturnValueRelease(stmt)]
    IN  release_mode(return_target(break_target(continue_target(escape(fs)))))

\* The final block begins, under its own error, return and break labels.
TryFinallyFinalStart(stmt, fs) ==
    LET olds(f) ==
            [f EXCEPT !.L.old_return = f.ctx.return_target,
                      !.L.old_break_target = f.ctx.loop_break,
                      !.L.old_continue_target = f.ctx.loop_continue]
        lineno(n) ==
            emit([n.fs EXCEPT !.L.tried_lineno_name = n.name],
                 Ins("save_lineno", NoneT, NoneT, n.name))
        error_label(l, f) ==
            [l.fs EXCEPT !.L.old_escape = f.ctx.exception_escape,
                         !.ctx.exception_escape = l.label]
        error_target(f) ==
            IF final_block_may_raise(stmt)
            THEN error_label(allocateLabel(f, "try_finally_handler_error"), f)
            ELSE f
        return_label(l) == [l.fs EXCEPT !.ctx.return_target = l.label]
        return_target(f) ==
            IF final_block_may_return(stmt)
            THEN return_label(allocateLabel(f, "try_finally_handler_return"))
            ELSE f
        break_label(l) == [l.fs EXCEPT !.ctx.loop_break = l.label]
        break_target(f) ==
            IF final_block_may_break(stmt)
            THEN break_label(allocateLabel(f, "try_finally_handler_break"))
            ELSE f
        checked(f) ==
            IF final_block_may_continue(stmt) \/ stmt.b = << >>
            THEN [f EXCEPT !.err = TRUE]
            ELSE break_target(return_target(error_target(lineno(allocateTempName(f)))))
    IN  checked(olds(fs))

\* After the final block.
TryFinallyFinalEnd(stmt, fs) ==
    LET release_mode(f) ==
            [f EXCEPT !.ctx.return_release_mode = f.L.old_return_value_release]
    IN  release_mode(emit(fs, Ins("restore_lineno", NoneT, NoneT,
                                  fs.L.tried_lineno_name)))

\* The re-raise to the exception escape of the moment.
ReraiseToCurrentEscape(fs, exception_exit, keeper) ==
    emit(fs, Ins("reraise_kept", fs.ctx.exception_escape, NoneT, keeper))

\* template_final_handler_reraise: a kept exception goes back to the live
\* slots and control to the exception exit.
template_final_handler_reraise(fs, exception_exit, keeper) ==
    emit(fs, Ins("reraise_kept", exception_exit, NoneT, keeper))

\* template_final_handler_return_reraise: a set return value goes on to the
\* parent's return target.
template_final_handler_return_reraise(fs, parent_return_target) ==
    emit(fs, Ins("return_if_value", parent_return_target, NoneT, tmp_return_value))

\* The exit that jumps to the label of the old target and sets nothing.
IndicatorExitLabelOnly(fs, op, indicator, old_target) ==
    emit(JumpToLabelOnly(emit(fs, Ins(op, NoneT, NoneT, indicator)), old_target),
         Ins("endif", NoneT, NoneT, 0))

\* "if ( indicator ) {", the jump to the enclosing loop target, "}".
TryFinallyIndicatorExit(fs, op, indicator, old_target) ==
    emit(JumpToLoopTarget(emit(fs, Ins(op, NoneT, NoneT, indicator)), old_target),
         Ins("endif", NoneT, NoneT, 0))

\* The dispatch with the break test ahead of the others.
DispatchBreakFirst(stmt, fs) ==
    LET reraise(f) ==
            IF tried_block_may_raise(stmt) /\ ~needsExceptionPublish(stmt)
            THEN template_final_handler_reraise(f, f.L.old_escape, f.L.keeper)
            ELSE f
        return_reraise(f) ==
            IF needsReturnHandling(stmt)
            THEN template_final_handler_return_reraise(f, f.L.old_return)
            ELSE f
        break_exit(f) ==
            IF needsBreakHandling(stmt)
            THEN TryFinallyIndicatorExit(f, "if_break", f.L.break_name,
                                         f.L.old_break_target)
            ELSE f
        end(e) == getGotoCode([e.fs EXCEPT !.L.final_end_target = e.label], e.label)
    IN  end(allocateLabel(
            return_reraise(reraise(break_exit(
                emit(fs, Ins("comment_reraise", NoneT, NoneT, 0))))),
            "finally_end"))

\* Re-raise, return, continue, break as necessary after the final block,
\* else on to the end label.
TryFinallyDispatch(stmt, fs) ==
    LET reraise(f) ==
            IF tried_block_may_raise(stmt) /\ ~needsExceptionPublish(stmt)
            THEN template_final_handler_reraise(f, f.L.old_escape, f.L.keeper)
            ELSE f
        return_reraise(f) ==
            IF needsReturnHandling(stmt)
            THEN template_final_handler_return_reraise(f, f.L.old_return)
            ELSE f
        continue_exit(f) ==
            IF needsContinueHandling(stmt)
            THEN TryFinallyIndicatorExit(f, "if_continue", f.L.continue_name,
                                         f.L.old_continue_target)
            ELSE f
        break_exit(f) ==
            IF needsBreakHandling(stmt)
            THEN TryFinallyIndicatorExit(f, "if_break", f.L.break_name,
                                         f.L.old_break_target)
            ELSE f
        end(e) == getGotoCode([e.fs EXCEPT !.L.final_end_target = e.label], e.label)
    IN  end(allocateLabel(
            break_exit(continue_exit(return_reraise(reraise(
                emit(fs, Ins("comment_reraise", NoneT, NoneT, 0)))))),
            "finally_end"))

\* "Py_XDECREF( keeper ); keeper = NULL;"
ReleaseKeeper(stmt, fs) ==
    IF tried_block_may_raise(stmt) /\ ~needsExceptionPublish(stmt)
    THEN emit(fs, Ins("release_keeper", NoneT, NoneT, fs.L.keeper))
    ELSE fs

\* The labels the final block leaves through when it raises, returns or
\* breaks itself, each followed by the jump to the restored target.
TryFinallyFinalExits(stmt, fs) ==
    LET goto_escape(f) == getGotoCode(f, f.ctx.exception_escape)
        restore_escape(f) == [f EXCEPT !.ctx.exception_escape = f.L.old_escape]
        keeper(f) ==
            IF tried_block_may_raise(stmt)
            THEN IF f.ctx.python_version < 300
                 THEN emit(f, Ins("release_keeper", NoneT, NoneT, f.L.keeper))
                 ELSE emit(f, Ins("chain_kept", NoneT, NoneT, f.L.keeper))
            ELSE f
        error_exit(f) ==
            IF final_block_may_raise(stmt)
            THEN goto_escape(restore_escape(keeper(
                     getLabelCode(f, f.ctx.exception_escape))))
            ELSE f
        goto_return(f) == getGotoCode(f, f.ctx.return_target)
        restore_return(f) == [f EXCEPT !.ctx.return_target = f.L.old_return]
        return_exit(f) ==
            IF final_block_may_return(stmt)
            THEN goto_return(restore_return(ReleaseKeeper(stmt,
                     getLabelCode(f, f.ctx.return_target))))
            ELSE f
        goto_break(f) == getGotoCode(f, f.ctx.loop_break)
        restore_break(f) == [f EXCEPT !.ctx.loop_break = f.L.old_break_target]
        break_exit(f) ==
            IF final_block_may_break(stmt)
            THEN goto_break(restore_break(ReleaseKeeper(stmt,
                     getLabelCode(f, f.ctx.loop_break))))
            ELSE f
        end_label(f) == getLabelCode(f, f.L.final_end_target)
    IN  end_label(break_exit(return_exit(error_exit(fs))))

generateTryFinallyCode(task, fs) ==
    LET stmt == task.stmt
        nested(f) == [f EXCEPT !.ctx.nest = @ \cup {f.L.construct}]
    IN
    CASE task.do = "statement" ->
            Result(TryFinallyTriedStart(stmt,
                       TryFinallyInstallTargets(stmt, nested(EnterCall(fs)))),
                   << Task("sequence", Block(stmt.a)),
                      Task("tried_done", stmt) >>)
      [] task.do = "tried_done" ->
            Result(TryFinallyFinalStart(stmt,
                       TryFinallyRestoreTried(stmt,
                           TryFinallyHandlerStart(stmt,
                               TryFinallyTriedEnd(stmt, fs)))),
                   << Task("sequence", Block(stmt.b)),
                      Task("final_done", stmt) >>)
      [] task.do = "final_done" ->
            Result(LeaveCall(NoteTargets(
                       TryFinallyFinalExits(stmt,
                           TryFinallyDispatch(stmt,
                               TryFinallyFinalEnd(stmt, fs))))),
                   << >>)

(***************************************************************************)
(* generateTryExceptCode and its fused "next or break" form.               *)
(***************************************************************************)
\* No tree shape takes the fused form.
ShapeNever(stmt) == FALSE

\* The one tree shape the fused form is taken for.
TryNextExceptStopIterationShape(stmt) ==
    /\ ~needsExceptionPublish(stmt)
    /\ stmt.b # << >>
    /\ Len(stmt.a) = 1
    /\ Len(stmt.b) = 1
    /\ stmt.a[1].kind = "assign_next"
    /\ stmt.b[1].kind = "cond"
    /\ Len(stmt.b[1].a) = 1
    /\ stmt.b[1].a[1].kind = "break"
    /\ Len(stmt.b[1].b) = 1
    /\ stmt.b[1].b[1].kind = "reraise"

\* ITERATOR_NEXT, with exhaustion going to the loop break target and any
\* other failure to the exception escape.
getBuiltinLoopBreakNextCode(fs) ==
    LET target == fs.ctx.loop_break
    IN  IF target.t = "none" THEN [fs EXCEPT !.err = TRUE]
        ELSE emit(fs, Ins("next_or_break", fs.ctx.exception_escape,
                          TupleLabel(target), target.ind))

generateTryNextExceptStopIterationCode(stmt, fs) ==
    emit(getBuiltinLoopBreakNextCode(generateExpressionCode(fs, FALSE, "eval")),
         Ins("assign_variable", NoneT, NoneT, 0))

generateAssignmentVariableCode(stmt, fs) ==
    emit(generateExpressionCode(fs, stmt.raises, "eval"),
         Ins("assign_variable", NoneT, NoneT, 0))

\* The tried block under the handler label and the end label.
TryExceptTriedStart(stmt, fs) ==
    LET ok(n) ==
            [n.fs EXCEPT !.L.old_ok = fs.ctx.exception_not_occured,
                         !.L.no_exception = n.label,
                         !.ctx.exception_not_occured = n.label]
        escape(h) ==
            [h.fs EXCEPT !.L.old_escape = fs.ctx.exception_escape,
                         !.ctx.exception_escape = h.label]
    IN  emit(escape(allocateLabel(ok(allocateLabel(fs, "try_except_end")),
                                  "try_except_handler")),
             Ins("comment_tried_except", NoneT, NoneT, 0))

TryExceptTriedEnd(stmt, fs) ==
    LET handler_label(f) == getLabelCode(f, f.ctx.exception_escape)
    IN  handler_label(getGotoCode(fs, fs.ctx.exception_not_occured))

\* The handler left under its own label: an error in it comes back to it.
TryExceptKeepEscape(stmt, fs) ==
    [fs EXCEPT !.ctx.exception_not_occured = fs.L.old_ok]

\* Inside the handler an error exits to the outside handler.
TryExceptRestore(stmt, fs) ==
    [fs EXCEPT !.ctx.exception_escape = fs.L.old_escape,
               !.ctx.exception_not_occured = fs.L.old_ok]

TryExceptHandlerStart(stmt, fs) ==
    emit([fs EXCEPT !.L.old_published = fs.ctx.exception_published,
                    !.ctx.exception_published = needsExceptionPublish(stmt)],
         Ins("comment_handler", NoneT, NoneT, 0))

TryExceptHandlerEnd(stmt, fs) ==
    LET unpublished(f) ==
            IF stmt.b # << >> /\ isStatementAborting(stmt.b)
            THEN emit(f, Ins("release_unpublished", NoneT, NoneT, 0))
            ELSE f
        release(f) ==
            IF ~needsExceptionPublish(stmt)
            THEN emit(f, Ins("release_exception", NoneT, NoneT, 0))
            ELSE f
        end_label(f) == getLabelCode(f, f.L.no_exception)
        published(f) == [f EXCEPT !.ctx.exception_published = f.L.old_published]
    IN  published(end_label(release(unpublished(fs))))

generateTryExceptCode(task, fs) ==
    LET stmt == task.stmt IN
    CASE task.do = "statement" ->
            IF TryNextExceptStopIterationShape(stmt)
            THEN Result(generateTryNextExceptStopIterationCode(stmt, fs), << >>)
            ELSE IF ~mayRaiseException(stmt.a)
            THEN Result([fs EXCEPT !.err = TRUE], << >>)
            ELSE Result(TryExceptTriedStart(stmt, EnterCall(fs)),
                        << Task("sequence", Block(stmt.a)),
                           Task("tried_done", stmt) >>)
      [] task.do = "tried_done" ->
            Result(TryExceptHandlerStart(stmt,
                       TryExceptRestore(stmt, TryExceptTriedEnd(stmt, fs))),
                   << Task("sequence", Block(stmt.b)),
                      Task("handler_done", stmt) >>)
      [] task.do = "handler_done" ->
            Result(LeaveCall(NoteTargets(TryExceptHandlerEnd(stmt, fs))), << >>)

\* _generateStatementCode for the statements that have no statement inside.
generateStatementCode(task, fs) ==
    LET stmt == task.stmt IN
    Result(CASE stmt.kind = "expr"        -> generateStatementOnlyCode(stmt, fs)
             [] stmt.kind = "assign_next" -> generateAssignmentVariableCode(stmt, fs)
             [] stmt.kind = "return"      -> generateReturnCode(stmt, fs)
             [] stmt.kind = "break"       -> getLoopBreakCode(fs)
             [] stmt.kind = "continue"    -> getLoopContinueCode(fs)
             [] stmt.kind = "raise"       -> generateRaiseCode(stmt, fs)
             [] stmt.kind = "reraise"     -> generateRaiseCode(stmt, fs)
             [] stmt.kind = "publish_exception" ->
                    emit(fs, Ins("publish_exception", NoneT, NoneT, 0)),
           << >>)

\* The statements of a sequence, in order.
generateStatementSequenceCode(task, fs) ==
    Result(fs, [k \in 1..Len(task.stmt.a) |-> Task("statement", task.stmt.a[k])])

(***************************************************************************)
(* The emitted function, run one line at a time.                           *)
(***************************************************************************)
\* Ghost counters stop at this value.
RunsCap == 3

\* A value no line has written: a C local without initializer.
Undefined == -1

Max(S) == CHOOSE x \in S : \A y \in S : y <= x

NestAt(p) == IF p \in 1..Len(code) THEN code[p].tfs ELSE {}

\* The construct that emitted line p.
OwnerAt(p) == IF NestAt(p) = {} THEN 0 ELSE Max(NestAt(p))

\* Where a jump to target lands: a position, or the way the function ends.
Landing(target) ==
    IF target = FunctionReturnExit THEN [pc |-> 0, outcome |-> "returned"]
    ELSE IF target = FunctionExceptionExit THEN [pc |-> 0, outcome |-> "raised"]
    ELSE IF \E p \in 1..Len(code) : code[p].op = "label" /\ code[p].tgt = target
    THEN [pc |-> CHOOSE p \in 1..Len(code) :
                     code[p].op = "label" /\ code[p].tgt = target,
          outcome |-> "running"]
    ELSE [pc |-> 0, outcome |-> "undefined_label"]

\* A slot is read that no line has written.
UndefinedRead == [pc |-> 0, outcome |-> "undefined_read"]

Next1(p) ==
    IF p + 1 <= Len(code) THEN [pc |-> p + 1, outcome |-> "running"]
    ELSE [pc |-> 0, outcome |-> "finished"]

\* The dispatch tests of construct k that find their slot set.
DispatchOps == {"reraise_kept", "return_if_value", "if_continue", "if_break"}

Pending(k) ==
    { code[p].op : p \in { q \in 1..Len(code) :
                             /\ OwnerAt(q) = k
                             /\ code[q].op \in DispatchOps
                             /\ regs[code[q].var] # 0 } }

NotTaken == [tf |-> 0, pending |-> {}, exit |-> ""]

\* One line executed: control lands at `to`, and the ghost variables note
\* the constructs entered and left and the final bodies started.
Step(to, newregs, newexception, newtaken) ==
    LET here == NestAt(pc)
        there == NestAt(to.pc)
        started == IF code[pc].op = "save_lineno" THEN OwnerAt(pc) ELSE 0
        count == [k \in DOMAIN runs |->
                    IF k = started /\ runs[k] < RunsCap THEN runs[k] + 1
                    ELSE runs[k]]
    IN  /\ pc' = to.pc
        /\ outcome' = to.outcome
        /\ phase' = IF to.outcome = "running" THEN "run" ELSE "done"
        /\ regs' = newregs
        /\ exception_type' = newexception
        /\ taken' = newtaken
        /\ exited' = { << k, count[k] >> : k \in here \ there }
        /\ runs' = [k \in DOMAIN runs |->
                      IF k \in there \ here THEN 0 ELSE count[k]]
        /\ UNCHANGED << python_version, statement, gen, agenda, code, context >>
        /\ UNCHANGED << markVars, cleanVars, constVars, cmpVars, litVars, reformVars, modVars, nextVars, condVars, initVars, runVars, gcVars, sliceVars >>

At(ops) == phase = "run" /\ code[pc].op \in ops

\* One step of the generator: the first piece of work left is done, and the
\* work it calls for comes before the rest.
Generating(kinds) ==
    /\ phase = "generate"
    /\ ~gen.err
    /\ agenda # << >>
    /\ Head(agenda).stmt.kind \in kinds

Generated(result) ==
    /\ gen' = result.fs
    /\ agenda' = result.todo \o Tail(agenda)
    /\ UNCHANGED << phase, python_version, statement, code, context, pc, regs,
                    exception_type, outcome, runs, exited, taken >>
    /\ UNCHANGED << markVars, cleanVars, constVars, cmpVars, litVars, reformVars, modVars, nextVars, condVars, initVars, runVars, gcVars, sliceVars >>

GenSequence ==
    /\ Generating({"block"})
    /\ Generated(generateStatementSequenceCode(Head(agenda), gen))

GenStatement ==
    /\ Generating({"expr", "assign_next", "return", "break", "continue",
                   "raise", "reraise", "publish_exception"})
    /\ Generated(generateStatementCode(Head(agenda), gen))

GenBranch ==
    /\ Generating({"cond"})
    /\ Generated(generateBranchCode(Head(agenda), gen))

GenLoop ==
    /\ Generating({"loop"})
    /\ Generated(generateLoopCode(Head(agenda), gen))

GenTryExcept ==
    /\ Generating({"tryexcept"})
    /\ Generated(generateTryExceptCode(Head(agenda), gen))

GenTryFinally ==
    /\ Generating({"tryfinally"})
    /\ Generated(generateTryFinallyCode(Head(agenda), gen))

\* The generator is through, or has failed: the emitted function is compiled
\* and entered at its first line.
Generate ==
    /\ phase = "generate"
    /\ gen.err \/ agenda = << >>
    /\ LET failed == gen.err \/ gen.code = << >> IN
           /\ code' = gen.code
           /\ context' = gen.ctx
           /\ phase' = IF failed THEN "failed" ELSE "run"
           /\ pc' = IF failed THEN 0 ELSE 1
           /\ regs' = [r \in 0..gen.ctx.temp_count |->
                         IF r = tmp_return_value THEN 0 ELSE Undefined]
           /\ runs' = [k \in 1..gen.ctx.label_count |-> 0]
    /\ gen' = Generation(NewContext(python_version))
    /\ agenda' = << >>
    /\ UNCHANGED << python_version, statement, exception_type, outcome,
                    exited, taken >>
    /\ UNCHANGED << markVars, cleanVars, constVars, cmpVars, litVars, reformVars, modVars, nextVars, condVars, initVars, runVars, gcVars, sliceVars >>

\* Labels, comments and the lines that touch neither slots nor control.
ExecLine ==
    /\ At({"label", "endif", "comment_tried", "comment_final", "comment_reraise",
           "comment_tried_except", "comment_handler", "save_lineno",
           "restore_lineno", "decref_return_value", "assign_variable",
           "release_unpublished", "publish_exception"})
    /\ Step(Next1(pc), regs, exception_type, NotTaken)

ExecGoto ==
    /\ At({"goto"})
    /\ Step(Landing(code[pc].tgt), regs, exception_type,
            IF code[pc].tgt.n = "finally_end"
            THEN [tf |-> OwnerAt(pc), pending |-> Pending(OwnerAt(pc)),
                  exit |-> "normal"]
            ELSE NotTaken)

\* Assignments to indicators, keepers and the exception slots.
ExecAssign ==
    LET v == code[pc].var IN
    \/ /\ At({"set_false", "set_null", "release_keeper"})
       /\ Step(Next1(pc), [regs EXCEPT ![v] = 0], exception_type, NotTaken)
    \/ /\ At({"set_true"})
       /\ Step(Next1(pc), [regs EXCEPT ![v] = 1], exception_type, NotTaken)
    \/ /\ At({"set_exception_null", "release_exception"})
       /\ Step(Next1(pc), regs, 0, NotTaken)
    \/ /\ At({"keep_exception"})
       /\ Step(Next1(pc), [regs EXCEPT ![v] = exception_type], 0, NotTaken)
    \/ /\ At({"chain_kept"})
       /\ IF regs[v] = Undefined
          THEN Step(UndefinedRead, regs, exception_type, NotTaken)
          ELSE Step(Next1(pc), regs,
                    IF regs[v] # 0 THEN regs[v] ELSE exception_type, NotTaken)

\* A support call that succeeds.
ExecCallOk ==
    \/ /\ At({"eval", "consider_threading", "next_or_break"})
       /\ Step(Next1(pc), regs, exception_type, NotTaken)
    \/ /\ At({"eval_return_value"})
       /\ Step(Next1(pc), [regs EXCEPT ![tmp_return_value] = pc],
               exception_type, NotTaken)

\* A support call that fails, and the raise statements: the exception is
\* set and control goes to the exception escape the line names.
ExecCallFail ==
    \/ /\ At({"eval", "consider_threading", "next_or_break", "raise"})
       /\ code[pc].tgt # NoneT
       /\ Step(Landing(code[pc].tgt), regs, pc, NotTaken)
    \/ /\ At({"eval_return_value"})
       /\ code[pc].tgt # NoneT
       /\ Step(Landing(code[pc].tgt), [regs EXCEPT ![tmp_return_value] = 0],
               pc, NotTaken)
    \/ /\ At({"reraise_current"})
       /\ Step(Landing(code[pc].tgt), regs, exception_type, NotTaken)

\* The iterator is exhausted: the fused call leaves the loop.
ExecNextBreak ==
    /\ At({"next_or_break"})
    /\ Step(Landing(code[pc].tgt2),
            IF code[pc].var # 0 THEN [regs EXCEPT ![code[pc].var] = 1] ELSE regs,
            exception_type, NotTaken)

\* The condition of a branch statement, either way.
ExecBranch ==
    /\ At({"branch"})
    /\ \E target \in {code[pc].tgt, code[pc].tgt2} :
           Step(Landing(target), regs, exception_type, NotTaken)

\* The tests after the final block.
ExecTest ==
    LET v == code[pc].var
        k == OwnerAt(pc)
        exit(name) == [tf |-> k, pending |-> Pending(k), exit |-> name]
        endif == CHOOSE p \in pc..Len(code) :
                     /\ code[p].op = "endif"
                     /\ \A q \in pc..(p - 1) : code[q].op # "endif"
    IN  /\ At(DispatchOps)
        /\ \/ /\ regs[v] = Undefined
              /\ Step(UndefinedRead, regs, exception_type, NotTaken)
           \/ /\ regs[v] # Undefined
              /\ code[pc].op = "reraise_kept"
              /\ IF regs[v] # 0
                 THEN Step(Landing(code[pc].tgt), regs, regs[v], exit("reraise_kept"))
                 ELSE Step(Next1(pc), regs, exception_type, NotTaken)
           \/ /\ regs[v] # Undefined
              /\ code[pc].op = "return_if_value"
              /\ IF regs[v] # 0
                 THEN Step(Landing(code[pc].tgt), regs, exception_type,
                           exit("return_if_value"))
                 ELSE Step(Next1(pc), regs, exception_type, NotTaken)
           \/ /\ regs[v] # Undefined
              /\ code[pc].op \in {"if_continue", "if_break"}
              /\ IF regs[v] # 0
                 THEN Step(Next1(pc), regs, exception_type, exit(code[pc].op))
                 ELSE Step(Next1(endif), regs, exception_type, NotTaken)

(***************************************************************************)
(* The function bodies generated and run.                                  *)
(***************************************************************************)
PythonVersions == {270, 330}

Leaves == {ExprOnly(FALSE), ExprOnly(TRUE), Return(FALSE), BreakLoop,
           ContinueLoop, Raise}

TriedBlocks ==
    { << s >> : s \in Leaves } \cup
    { << Conditional(<< s >>, << t >>) >> :
        s \in {ExprOnly(TRUE), Return(FALSE), BreakLoop}, t \in Leaves }

FinalBlocks ==
    { << ExprOnly(FALSE) >>, << ExprOnly(TRUE) >>, << Return(FALSE) >>,
      << BreakLoop >>, << Raise >>,
      << Conditional(<< ExprOnly(FALSE) >>, << Return(FALSE) >>) >>,
      << Conditional(<< ExprOnly(FALSE) >>, << BreakLoop >>) >>,
      << Conditional(<< ExprOnly(TRUE) >>, << BreakLoop >>) >> }

SmallTried ==
    { << Return(FALSE) >>, << ExprOnly(TRUE) >>,
      << Conditional(<< BreakLoop >>, << ContinueLoop >>) >>,
      << Conditional(<< Return(FALSE) >>, << Raise >>) >> }

SmallFinal ==
    { << ExprOnly(FALSE) >>, << ExprOnly(TRUE) >>, << BreakLoop >>,
      << Conditional(<< ExprOnly(FALSE) >>, << BreakLoop >>) >> }

Handlings ==
    { << >>, << ExprOnly(FALSE) >>, << BreakLoop >>, << Reraise >>,
      << Conditional(<< BreakLoop >>, << Reraise >>) >>,
      << Conditional(<< ExprOnly(TRUE) >>, << Return(FALSE) >>) >> }

\* A try/finally in a loop.
PlainUnits ==
    { << Loop(<< TryFinally(t, f) >>), ExprOnly(FALSE) >> :
        t \in TriedBlocks, f \in FinalBlocks }

\* A try/finally in the tried block of another.
NestedUnits ==
    { << Loop(<< TryFinally(<< TryFinally(t, f), s >>, g) >>) >> :
        t \in SmallTried, f \in SmallFinal,
        s \in {ExprOnly(FALSE), ContinueLoop, BreakLoop},
        g \in {<< ExprOnly(FALSE) >>, << ExprOnly(TRUE) >>} }

\* A return given up by a break of the final block, in a loop of the tried
\* block of another try/finally.
InnerLoopUnits ==
    { << Loop(<< TryFinally(
            << Loop(<< TryFinally(<< Return(FALSE) >>, f) >>), s >>, g) >>) >> :
        f \in {<< BreakLoop >>, << Conditional(<< ExprOnly(FALSE) >>, << BreakLoop >>) >>},
        s \in {ExprOnly(TRUE), Raise, ContinueLoop, BreakLoop,
               Conditional(<< ContinueLoop >>, << Raise >>)},
        g \in {<< ExprOnly(FALSE) >>, << ExprOnly(TRUE) >>} }

\* try/except, alone, around and inside a try/finally.
ExceptUnits ==
    { << Loop(<< TryExcept(t, h) >>) >> :
        t \in {<< ExprOnly(TRUE) >>, << AssignNext >>, << Raise >>,
               << Conditional(<< Return(TRUE) >>, << ContinueLoop >>) >>},
        h \in Handlings } \cup
    { << Loop(<< TryFinally(<< TryExcept(<< ExprOnly(TRUE) >>, h) >>, f) >>) >> :
        h \in Handlings, f \in SmallFinal } \cup
    { << Loop(<< TryExcept(<< TryFinally(t, f) >>, h) >>) >> :
        t \in SmallTried, f \in SmallFinal,
        h \in {<< ExprOnly(FALSE) >>, << Reraise >>} }

\* A loop in the tried block of a try/finally.
LoopInTriedUnits ==
    { << Loop(<< TryFinally(<< Loop(<< b >>), s >>, g) >>) >> :
        b \in {BreakLoop, Conditional(<< BreakLoop >>, << ContinueLoop >>),
               Conditional(<< BreakLoop >>, << ExprOnly(TRUE) >>)},
        s \in {ExprOnly(FALSE), ExprOnly(TRUE)},
        g \in {<< ExprOnly(FALSE) >>, << ExprOnly(TRUE) >>} }

\* A try/except in the final block of a try/finally.
FinalExceptUnits ==
    { << Loop(<< TryFinally(t, << TryExcept(<< r >>, h) >>) >>) >> :
        t \in {<< Raise >>, << ExprOnly(TRUE) >>,
               << Conditional(<< BreakLoop >>, << Raise >>) >>},
        r \in {Raise, ExprOnly(TRUE)},
        h \in {<< ExprOnly(FALSE) >>, << Reraise >>} }

\* A try/except whose handler publishes the exception.
PublishedUnits ==
    { << Loop(<< TryExceptPublished(t, h) >>) >> :
        t \in {<< ExprOnly(TRUE) >>, << Raise >>},
        h \in {<< >>, << ExprOnly(TRUE) >>, << BreakLoop >>, << Reraise >>} }

InitTry ==
    /\ phase = "generate"
    /\ python_version \in PythonVersions
    /\ statement \in PlainUnits \cup NestedUnits \cup InnerLoopUnits \cup ExceptUnits
                     \cup FinalExceptUnits \cup LoopInTriedUnits \cup PublishedUnits
    /\ gen = Generation(NewContext(python_version))
    /\ agenda = << Task("sequence", Block(statement)) >>
    /\ code = << >>
    /\ context = NewContext(python_version)
    /\ pc = 0
    /\ regs = << >>
    /\ exception_type = 0
    /\ outcome = "running"
    /\ runs = << >>
    /\ exited = {}
    /\ taken = NotTaken
    /\ IdleMark /\ IdleClean /\ IdleConst /\ IdleCmp /\ IdleLit /\ IdleReform /\ IdleModule /\ IdleNext /\ IdleCondExpr /\ IdleInit /\ IdleRun /\ IdleCondition /\ IdleSlice

NextTry ==
    \/ GenSequence
    \/ GenStatement
    \/ GenBranch
    \/ GenLoop
    \/ GenTryExcept
    \/ GenTryFinally
    \/ Generate
    \/ ExecLine
    \/ ExecGoto
    \/ ExecAssign
    \/ ExecCallOk
    \/ ExecCallFail
    \/ ExecNextBreak
    \/ ExecBranch
    \/ ExecTest

SpecTry == InitTry /\ [][NextTry]_vars

\* Sanity of the run: every running line has a successor.
TypeOutcome ==
    outcome \in {"running", "returned", "raised", "finished",
                 "undefined_label", "undefined_read"}

(***************************************************************************)
(* Properties of the try/finally and try/except lowering.                  *)
(***************************************************************************)
\* The tests after the final block, in the order of their priority.
DispatchOrder == << "reraise_kept", "return_if_value", "if_continue", "if_break" >>

FirstPending(pending) ==
    IF pending = {} THEN "normal"
    ELSE DispatchOrder[CHOOSE i \in 1..Len(DispatchOrder) :
                           /\ DispatchOrder[i] \in pending
                           /\ \A j \in 1..(i - 1) : DispatchOrder[j] \notin pending]

\* C1: whenever control leaves the emitted code of a try/finally construct,
\* whichever way the tried block was left, the final body of the construct
\* was started exactly once since the construct was entered; a return
\* reaches the function's return exit only that way.
C1_FinallyRunsOnce == \A e \in exited : e[2] = 1

\* A return of the tried block has reached the return exit of the function,
\* leaving a construct whose final body ran once.
C1_Witness == outcome = "returned" /\ \E e \in exited : e[2] = 1

\* C2: the exit taken after a final body is the first pending one in the
\* order re-raise, return, continue, break, and the normal exit only when
\* none is pending.
C2_DispatchPriority == taken.tf # 0 => taken.exit = FirstPending(taken.pending)

\* A break exit taken, and a return exit taken with a break also pending.
C2_Witness ==
    /\ taken.tf # 0
    /\ taken.exit = "return_if_value"
    /\ "if_break" \in taken.pending

\* C10: a try/except or try/finally whose generation ended left the
\* exception escape, exception-not-occurred, return, loop break and loop
\* continue targets as they were before it.
C10_TargetsRestored == gen.ctx.unrestored = {} /\ context.unrestored = {}

\* Two nested try constructs generated to their end, the inner with a
\* final block under its own break label.
C10_Witness ==
    /\ phase = "run"
    /\ Cardinality(context.restored) >= 2
    /\ \E p \in 1..Len(code) : code[p].tgt.n = "try_finally_handler_break"

\* The idiom: the sole tried statement assigns from the advance of an
\* iterator, the sole handler is the test of the caught exception with a
\* break on match and a re-raise otherwise.
FusedIdiom(stmt) ==
    /\ stmt.kind = "tryexcept"
    /\ stmt.a = << AssignNext >>
    /\ stmt.b = << Conditional(<< BreakLoop >>, << Reraise >>) >>

\* C11: the generation of a try/except of the idiom emits the evaluation
\* of the iterator, the fused advance-or-break call and the variable
\* assignment in one step, allocates no label, calls for no further work
\* and leaves every target of the context as it was.
C11_FusedNextOrBreak ==
    [][ (Generating({"tryexcept"}) /\ FusedIdiom(Head(agenda).stmt))
        => /\ Len(gen'.code) = Len(gen.code) + 3
           /\ gen'.code[Len(gen.code) + 2].op = "next_or_break"
           /\ gen'.code[Len(gen.code) + 3].op = "assign_variable"
           /\ gen'.ctx.label_count = gen.ctx.label_count
           /\ Targets(gen'.ctx) = Targets(gen.ctx)
           /\ agenda' = Tail(agenda) ]_vars

\* The idiom in a loop, generated: the fused call and no try/except label.
C11_Witness ==
    /\ phase = "run"
    /\ statement = << Loop(<< TryExcept(<< AssignNext >>,
                         << Conditional(<< BreakLoop >>, << Reraise >>) >>) >>) >>
    /\ \E p \in 1..Len(code) :
          /\ code[p].op = "next_or_break"
          /\ code[p].tgt = FunctionExceptionExit
          /\ code[p].tgt2.n = "loop_end"
    /\ \A p \in 1..Len(code) :
          code[p].tgt.n \notin {"try_except_handler", "try_except_end"}

\* The lines that move a pending exception into a keeper, the line that
\* tests that keeper after the final body, and the lines between them: the
\* final body.
KeepLines == { q \in 1..Len(code) : code[q].op = "keep_exception" }

ReraiseLine(q) ==
    CHOOSE r \in q..Len(code) :
        code[r].op = "reraise_kept" /\ code[r].var = code[q].var

FinalRegion(q) == (q + 1)..ReraiseLine(q)

\* C15: the exception pending when a final block is entered is held in the
\* keeper of its construct: no line of the final body writes that keeper,
\* whatever it does to the live exception, and after a final body that
\* completed the re-raise puts the kept exception back and jumps to the
\* exception escape of the enclosing scope.
C15_KeptExceptionReraised ==
    [][ /\ (Generating({"tryfinally"}) /\ Head(agenda).do = "final_done")
            => \A p \in (Len(gen.code) + 1)..Len(gen'.code) :
                   gen'.code[p].op = "reraise_kept"
                   => /\ gen'.code[p].tgt = gen.L.entry_targets[1]
                      /\ \E q \in 1..Len(gen.code) :
                            /\ gen.code[q].op = "keep_exception"
                            /\ gen.code[q].var = gen'.code[p].var
                            /\ gen.code[q].tfs = gen'.code[p].tfs
        /\ phase = "run"
            => /\ pc \in KeepLines
                    => regs'[code[pc].var] = exception_type /\ exception_type' = 0
               /\ \A q \in KeepLines :
                    pc \in FinalRegion(q) => regs'[code[q].var] = regs[code[q].var]
               /\ (code[pc].op = "reraise_kept" /\ regs[code[pc].var] > 0)
                    => /\ exception_type' = regs[code[pc].var]
                       /\ pc' = Landing(code[pc].tgt).pc
                       /\ outcome' = Landing(code[pc].tgt).outcome ]_vars

\* The tried block raised, the final body raised and handled an exception
\* of its own, and the first exception went on to the function's exit.
C15_Witness ==
    /\ statement = << Loop(<< TryFinally(<< Raise >>,
                         << TryExcept(<< Raise >>, << ExprOnly(FALSE) >>) >>) >>) >>
    /\ taken.exit = "reraise_kept"
    /\ outcome = "raised"
    /\ code[exception_type].op = "raise"
    /\ code[exception_type].tgt.n = "try_finally_handler"

\* The labels a final block leaves through when it raises, returns or breaks
\* itself.
InnerLabels ==
    {"try_finally_handler_error", "try_finally_handler_return",
     "try_finally_handler_break"}

\* Control is at the jump that ends the exit of a final block through the
\* inner label at l, past the line that deals with the keeper.
AtInnerExit(l) ==
    /\ phase = "run"
    /\ l \in 1..Len(code)
    /\ pc = l + 2
    /\ code[l].op = "label"
    /\ code[l].tgt.n \in InnerLabels
    /\ code[l + 1].op \in {"release_keeper", "chain_kept"}
    /\ code[pc].op = "goto"

\* The line that filled the keeper the line at p deals with.
KeepLineOf(p) == CHOOSE q \in KeepLines : code[q].var = code[p].var

FinalExitPrecedes(l) ==
    /\ regs[code[l + 1].var] = 0
    /\ code[pc].tgt.n \notin InnerLabels
    /\ code[l].tgt.n = "try_finally_handler_error"
         => exception_type > KeepLineOf(l + 1)

\* C16: a final block that raises, returns or breaks while an outcome of the
\* tried block is pending leaves through its inner label, the kept exception
\* is released, and control goes on to the enclosing target with the final
\* block's own exit: after a raise of the final block the live exception is
\* the one the final block raised.
C16_FinalExitTakesPrecedence ==
    \A l \in 1..Len(code) : AtInnerExit(l) => FinalExitPrecedes(l)

\* The same for Python 2 only, where the keeper is released on every exit.
C16_HoldsBefore300 ==
    python_version < 300 => C16_FinalExitTakesPrecedence

\* A final block raised over a pending exception and the jump to the escape
\* is next.
C16_Reached ==
    \E l \in 1..Len(code) :
        /\ AtInnerExit(l)
        /\ code[l].tgt.n = "try_finally_handler_error"
        /\ python_version < 300
        /\ exception_type > KeepLineOf(l + 1)
        /\ KeepLineOf(l + 1) > 0

IndicatorTests == {"if_continue", "if_break"}

\* The test of an indicator after the final block of the inner of two nested
\* try/finally constructs.
InnerTest(p) ==
    /\ p \in 1..Len(code)
    /\ code[p].op \in IndicatorTests
    /\ Cardinality(NestAt(p)) = 2

\* The same test after the final block of the enclosing construct.
OuterTest(p) ==
    CHOOSE q \in 1..Len(code) :
        code[q].op = code[p].op /\ NestAt(q) = NestAt(p) \ {OwnerAt(p)}

\* The finally-start label of the enclosing construct.
OuterStart(p) ==
    CHOOSE q \in 1..Len(code) :
        /\ code[q].op = "label"
        /\ code[q].tgt.n = "try_finally_handler_start"
        /\ NestAt(q) = NestAt(p) \ {OwnerAt(p)}

\* The try/finally constructs of the emitted code.
Constructs == UNION { NestAt(p) : p \in 1..Len(code) }

\* C17: with a try/finally in the tried block of another, a continue or
\* break jumps to a finally-start label with the indicator of that construct
\* set; the test after the inner final body that finds the indicator set sets
\* the indicator of the enclosing construct and jumps to its finally-start
\* label; the inner final body has then run once and the outer
\* not yet, the outer final body starts after the inner construct is left,
\* and the jump to the loop target is taken with both bodies run once.  A
\* loop in the tried block has labels of its own as targets: its break and
\* continue set no indicator and start no final body.
C17_NestedFinallyOrder ==
    /\ (phase = "run" /\ statement \in NestedUnits) =>
          /\ (code[pc].op = "goto" /\ code[pc].tgt.n = "try_finally_handler_start") =>
                \/ code[pc - 1].op = "eval_return_value"
                \/ /\ code[pc - 1].op = "set_true"
                   /\ regs[code[pc - 1].var] = 1
                   /\ \E q \in 1..Len(code) :
                          /\ code[q].op \in IndicatorTests
                          /\ code[q].var = code[pc - 1].var
                          /\ OwnerAt(q) = OwnerAt(Landing(code[pc].tgt).pc)
          /\ (InnerTest(pc) /\ regs[code[pc].var] = 1) =>
                /\ runs[OwnerAt(pc)] = 1
                /\ \A k \in NestAt(pc) \ {OwnerAt(pc)} : runs[k] = 0
                /\ code[pc + 1].op = "set_true"
                /\ code[pc + 1].var = code[OuterTest(pc)].var
                /\ code[pc + 2].op = "goto"
                /\ Landing(code[pc + 2].tgt).pc = OuterStart(pc)
          /\ (code[pc].op = "save_lineno" /\ Cardinality(NestAt(pc)) = 1) =>
                /\ runs[OwnerAt(pc)] = 0
                /\ \A k \in Constructs : k > OwnerAt(pc) => runs[k] = 1
          /\ (code[pc].op = "goto" /\ code[pc].tgt.n \in {"loop_start", "loop_end"}
                /\ NestAt(pc) # {}) =>
                /\ Cardinality(NestAt(pc)) = 1
                /\ \A k \in Constructs : k >= OwnerAt(pc) => runs[k] = 1
    /\ (phase = "run" /\ statement \in LoopInTriedUnits) =>
          /\ \A p \in 1..Len(code) : code[p].op \notin IndicatorTests \cup {"set_true"}
          /\ (code[pc].op = "goto" /\ code[pc].tgt.n \in {"loop_start", "loop_end"}
                /\ NestAt(pc) # {}) =>
                /\ code[pc].tgt.i > OwnerAt(pc)
                /\ NestAt(Landing(code[pc].tgt).pc) = NestAt(pc)
                /\ runs[OwnerAt(pc)] = 0

\* A break of the inner tried block has gone through both final bodies and
\* the jump to the end of the loop is next.
C17_Witness ==
    /\ phase = "run"
    /\ statement \in NestedUnits
    /\ statement[1].a[1].a[1].a = << Conditional(<< BreakLoop >>, << ContinueLoop >>) >>
    /\ code[pc].op = "goto"
    /\ code[pc].tgt.n = "loop_end"
    /\ Cardinality(NestAt(pc)) = 1
    /\ \A k \in Constructs : k >= OwnerAt(pc) => runs[k] = 1
    /\ regs[code[pc - 1].var] = 1

\* A break of a loop in the tried block is about to leave that loop only.
C17_LoopWitness ==
    /\ phase = "run"
    /\ statement \in LoopInTriedUnits
    /\ code[pc].op = "goto"
    /\ code[pc].tgt.n = "loop_end"
    /\ NestAt(pc) # {}

\* The lines a step of the generator has emitted.
Emitted == SubSeq(gen'.code, Len(gen.code) + 1, Len(gen'.code))

Ops(lines) == [p \in DOMAIN lines |-> lines[p].op]

\* The loop about to be generated, or generated up to the end of its body.
AtLoop(do) == Generating({"loop"}) /\ Head(agenda).do = do

\* C18: generateLoopCode emits the loop-start label, the body, the checkpoint,
\* the jump back to loop-start and, unless the loop cannot be left by break,
\* the loop-end label.  While the body is generated the break and continue
\* targets of the context are loop-end and loop-start, and a break or
\* continue statement is a jump to that label, unless a try/finally has put a
\* target of its own in its place; after the loop
\* they are what they were before it.  In the emitted code a jump to a loop
\* label lands on it, and loop-end is reached by such a jump only, never by
\* running off the end of the body.
C18_LoopTargets ==
    [][ /\ AtLoop("statement") =>
              LET k == gen.ctx.label_count + 1
                  loop_start == Label("loop_start", k)
                  loop_end == IF isStatementAborting(<< Head(agenda).stmt >>)
                              THEN NoneT ELSE Label("loop_end", k + 1)
              IN  /\ gen'.ctx.loop_continue = loop_start
                  /\ gen'.ctx.loop_break = loop_end
                  /\ Ops(Emitted) = << "label" >>
                  /\ Emitted[1].tgt = loop_start
        /\ AtLoop("loop_end") =>
              /\ gen.ctx.loop_continue = gen.L.loop_start_label
              /\ gen.ctx.loop_break = gen.L.loop_end_label
              /\ gen'.ctx.loop_break = gen.L.entry_targets[4]
              /\ gen'.ctx.loop_continue = gen.L.entry_targets[5]
              /\ Emitted[1].op = "consider_threading"
              /\ Emitted[2].op = "goto"
              /\ Emitted[2].tgt = gen.L.loop_start_label
              /\ IF gen.L.loop_end_label = NoneT
                 THEN Len(Emitted) = 2
                 ELSE /\ Ops(Emitted) = << "consider_threading", "goto", "label" >>
                      /\ Emitted[3].tgt = gen.L.loop_end_label
        /\ (Generating({"continue"}) /\ gen.ctx.loop_continue.t = "label") =>
              /\ gen.ctx.loop_continue.n = "loop_start"
              /\ Ops(Emitted) = << "goto" >>
              /\ Emitted[1].tgt = gen.ctx.loop_continue
        /\ (Generating({"break"}) /\ gen.ctx.loop_break.n = "loop_end") =>
              /\ gen.ctx.loop_break.t = "label"
              /\ Ops(Emitted) = << "goto" >>
              /\ Emitted[1].tgt = gen.ctx.loop_break
        /\ (phase = "run" /\ code[pc].op = "goto"
              /\ code[pc].tgt.n \in {"loop_start", "loop_end"}) =>
              /\ pc' \in 1..Len(code)
              /\ code[pc'].op = "label"
              /\ code[pc'].tgt = code[pc].tgt
        /\ (phase = "run" /\ phase' = "run" /\ code[pc'].op = "label"
              /\ code[pc'].tgt.n = "loop_end") =>
              \/ code[pc].op = "goto" /\ code[pc].tgt = code[pc'].tgt
              \/ code[pc].op = "next_or_break" /\ code[pc].tgt2 = code[pc'].tgt
      ]_vars

\* A loop in the tried block of a try/finally was generated: its targets
\* were labels of its own and the tuples of the try/finally are back.  The
\* emitted code is at the end of the body of a loop, before the checkpoint.
C18_Witness ==
    /\ phase = "run"
    /\ statement \in LoopInTriedUnits
    /\ code[pc].op = "consider_threading"
    /\ code[pc + 1].op = "goto"
    /\ code[pc + 1].tgt.n = "loop_start"
    /\ NestAt(pc) # {}

\* Control is at a jump back to the start of a loop.
AtJumpToLoopStart ==
    phase = "run" /\ code[pc].op = "goto" /\ code[pc].tgt.n = "loop_start"

\* C19: each iteration of an emitted loop passes the checkpoint before the
\* next one starts, whether it ends at the end of the body or by continue:
\* a jump back to loop-start comes right after the checkpoint, and the
\* checkpoint names a label to branch to when it fails.
C19_CheckpointEachIteration ==
    /\ AtJumpToLoopStart => code[pc - 1].op = "consider_threading"
    /\ (phase = "run" /\ code[pc].op = "consider_threading") =>
          code[pc].tgt.t = "label"

\* What the loop does give: the checkpoint is emitted once, after the body,
\* with the exception escape of that moment as the target of its failure;
\* when it fails the exception is set and control goes to that target.
C19_CheckpointAfterBody ==
    [][ /\ AtLoop("loop_end") =>
              /\ Emitted[1].op = "consider_threading"
              /\ Emitted[1].tgt = gen'.ctx.exception_escape
              /\ Emitted[1].tgt = gen.L.entry_targets[1]
              /\ \A p \in DOMAIN Emitted : p > 1 => Emitted[p].op # "consider_threading"
        /\ (phase = "run" /\ code[pc].op = "consider_threading") =>
              \/ pc' = pc + 1 /\ exception_type' = exception_type
              \/ /\ pc' = Landing(code[pc].tgt).pc
                 /\ outcome' = Landing(code[pc].tgt).outcome
                 /\ exception_type' = pc
      ]_vars

\* A continue found by the test after a final body is about to start the
\* next iteration.
C19_ContinueReached ==
    /\ AtJumpToLoopStart
    /\ code[pc - 1].op = "if_continue"
    /\ regs[code[pc - 1].var] = 1


\* A try/except about to be generated, or generated up to the end of its
\* tried block or of its handler.
AtTryExcept(do) ==
    /\ Generating({"tryexcept"})
    /\ Head(agenda).do = do
    /\ ~TryNextExceptStopIterationShape(Head(agenda).stmt)
    /\ mayRaiseException(Head(agenda).stmt.a)

\* The handler labels of the emitted code, and for each the place of its
\* label and of the end label of its try/except.
HandlerLabels ==
    { code[p].tgt : p \in { q \in 1..Len(code) :
                              code[q].op = "label"
                              /\ code[q].tgt.n = "try_except_handler" } }

PlaceOf(label) == CHOOSE p \in 1..Len(code) : code[p].op = "label" /\ code[p].tgt = label

EndOf(handler) == Label("try_except_end", handler.i - 1)

\* C23: the tried block of a try/except is generated with the handler label
\* as exception escape and the end label as the place to go when no
\* exception occurred; after it come the jump to the end label and the
\* handler label.  The handler is generated with the escape of the
\* enclosing code, so no line from the handler label on names the handler
\* label and a failure in the handler lands outside of it.  The handler ends
\* with the release of the exception exactly when the statement does not
\* publish it, then the end label, and the release empties the exception
\* slot.
C23_HandlerProtocol ==
    [][ /\ AtTryExcept("statement") =>
              LET k == gen.ctx.label_count + 1 IN
              /\ gen'.ctx.exception_not_occured = Label("try_except_end", k)
              /\ gen'.ctx.exception_escape = Label("try_except_handler", k + 1)
        /\ AtTryExcept("tried_done") =>
              /\ gen.ctx.exception_escape.n = "try_except_handler"
              /\ Ops(Emitted) = << "goto", "label", "comment_handler" >>
              /\ Emitted[1].tgt = EndOf(gen.ctx.exception_escape)
              /\ Emitted[2].tgt = gen.ctx.exception_escape
              /\ gen'.ctx.exception_escape = gen.L.entry_targets[1]
              /\ gen'.ctx.exception_escape # gen.ctx.exception_escape
              /\ gen'.ctx.exception_published = Head(agenda).stmt.public_exc
        /\ AtTryExcept("handler_done") =>
              /\ gen.ctx.exception_escape = gen.L.entry_targets[1]
              /\ Emitted[Len(Emitted)].op = "label"
              /\ Emitted[Len(Emitted)].tgt = gen.L.no_exception
              /\ (\E p \in DOMAIN Emitted : Emitted[p].op = "release_exception")
                    <=> ~Head(agenda).stmt.public_exc
              /\ (~Head(agenda).stmt.public_exc /\ ~isStatementAborting(Head(agenda).stmt.b))
                    => Ops(Emitted) = << "release_exception", "label" >>
        /\ phase = "run" =>
              \A h \in HandlerLabels :
                  /\ PlaceOf(h) < PlaceOf(EndOf(h))
                  /\ code[PlaceOf(h) - 1].op = "goto"
                  /\ code[PlaceOf(h) - 1].tgt = EndOf(h)
                  /\ \A p \in 1..Len(code) :
                        (code[p].op # "label" /\ h \in {code[p].tgt, code[p].tgt2})
                            => p < PlaceOf(h)
        /\ (At({"release_exception"}) /\ outcome = "running") =>
              /\ exception_type' = 0
              /\ code[pc'].op = "label"
              /\ code[pc'].tgt.n = "try_except_end"
        /\ (phase = "run" /\ outcome = "running" /\ outcome' = "running"
              /\ code[pc'].op = "label"
              /\ code[pc'].tgt.n = "try_except_handler") =>
              /\ pc < pc'
              /\ exception_type' # 0
      ]_vars

\* A line of the tried block failed, the handler ran to its end and is about
\* to release the exception of that line.
C23_Witness ==
    /\ At({"release_exception"})
    /\ outcome = "running"
    /\ exception_type \in 1..Len(code)
    /\ code[exception_type].tgt.n = "try_except_handler"
    /\ PlaceOf(code[exception_type].tgt) < pc

\* A handler that publishes was left at its end: the exception is still set.
C23_PublishedWitness ==
    /\ phase = "run"
    /\ outcome = "running"
    /\ code[pc].op = "label"
    /\ code[pc].tgt.n = "try_except_end"
    /\ pc > 1
    /\ code[pc - 1].op \in {"eval", "publish_exception"}
    /\ exception_type # 0
    /\ \E p \in 1..(pc - 1) : code[p].op = "publish_exception"

\* A line of a handler failed and the function was left by the exception.
C23_HandlerFailed ==
    /\ phase = "done"
    /\ outcome = "raised"
    /\ exception_type \in 1..Len(code)
    /\ \E h \in HandlerLabels : PlaceOf(h) < exception_type
                                /\ exception_type < PlaceOf(EndOf(h))


\* The statement is a try/finally in the tried block of another, the final
\* block of the inner one may break: the break of the tried block of the
\* enclosing one is handled.
InnerFinalBreaks ==
    /\ statement \in NestedUnits
    /\ final_block_may_break(statement[1].a[1].a[1])
    /\ needsBreakHandling(statement[1].a[1])

\* The lines after the break label of a final block, up to its jump.
BreakExitJump(p) ==
    CHOOSE q \in p..Len(code) :
        code[q].op = "goto" /\ \A r \in p..(q - 1) : code[r].op # "goto"

\* C27: for such a statement the code is generated, and after the label a
\* break of the inner final block jumps to come the setting of the break
\* indicator of the enclosing try/finally and the jump to its finally-start
\* label; every jump of the code names a label.
C27_InnerFinalBreakReachesOuter ==
    (InnerFinalBreaks /\ phase # "generate") =>
        /\ phase # "failed"
        /\ \A p \in 1..Len(code) :
              /\ code[p].op = "goto" => code[p].tgt.t = "label"
              /\ (code[p].op = "label" /\ code[p].tgt.n = "try_finally_handler_break") =>
                    /\ \E q \in p..Len(code) : code[q].op = "goto"
                    /\ code[BreakExitJump(p)].tgt.n = "try_finally_handler_start"
                    /\ code[BreakExitJump(p) - 1].op = "set_true"

\* What the generator does: the break target put back after the final block
\* is the label and indicator of the enclosing try/finally, and the jump to
\* it is asked for with the two as its label.  No code comes out.
C27_GeneratorFails ==
    (InnerFinalBreaks /\ phase # "generate") =>
        /\ phase = "failed"
        /\ IsTuple(context.loop_break)
        /\ code[Len(code)].op \in {"label", "release_keeper", "chain_kept", "set_null"}

\* The generator has failed at the break exit of the inner final block.
C27_Reached ==
    /\ InnerFinalBreaks
    /\ phase = "failed"
    /\ \E p \in 1..Len(code) :
          code[p].op = "label" /\ code[p].tgt.n = "try_finally_handler_break"
(***************************************************************************)
(* The code_generated marker.  A request generates the code of a node and  *)
(* of the nodes below it; only _generateExpressionCode reads and sets the  *)
(* marker.                                                                 *)
(***************************************************************************)
\* A node may be asked for this many times.
MaxGenerations == 2

\* The node instances of a small tree: id -> kind and child instances.  The
\* variable reference 6 is shared between the call 5 and the return 4.
MarkNodes ==
    << [kind |-> "StatementBreakLoop",      expression |-> FALSE, children |-> << >>],
       [kind |-> "StatementContinueLoop",   expression |-> FALSE, children |-> << >>],
       [kind |-> "StatementExpressionOnly", expression |-> FALSE, children |-> << 5 >>],
       [kind |-> "StatementReturn",         expression |-> FALSE, children |-> << 6 >>],
       [kind |-> "ExpressionCall",          expression |-> TRUE,  children |-> << 6 >>],
       [kind |-> "ExpressionVariableRef",   expression |-> TRUE,  children |-> << >>],
       [kind |-> "StatementLoop",           expression |-> FALSE, children |-> << 1, 3 >>] >>

isExpression(node) == MarkNodes[node].expression

CountGeneration(node) ==
    [generations EXCEPT ![node] = IF @ < MaxGenerations THEN @ + 1 ELSE @]

\* generateStatementCode or generateExpressionCode is called for a node.
RequestGeneration ==
    /\ mark_outcome = "idle"
    /\ \E node \in DOMAIN MarkNodes :
          /\ generations[node] < MaxGenerations
          /\ mark_agenda' = << node >>
    /\ mark_outcome' = "generating"
    /\ UNCHANGED << code_generated, generations >>
    /\ UNCHANGED << tryVars, cleanVars, constVars, cmpVars, litVars, reformVars, modVars, nextVars, condVars, initVars, runVars, gcVars, sliceVars >>

\* _generateStatementCode: the branch of the statement's kind, which
\* generates the statements and expressions the statement holds.
GenerateStatementNode ==
    /\ mark_outcome = "generating"
    /\ mark_agenda # << >>
    /\ ~isExpression(Head(mark_agenda))
    /\ generations' = CountGeneration(Head(mark_agenda))
    /\ mark_agenda' = MarkNodes[Head(mark_agenda)].children \o Tail(mark_agenda)
    /\ UNCHANGED << code_generated, mark_outcome >>
    /\ UNCHANGED << tryVars, cleanVars, constVars, cmpVars, litVars, reformVars, modVars, nextVars, condVars, initVars, runVars, gcVars, sliceVars >>

\* _generateExpressionCode: the assertion on the marker, the marker set, and
\* then the branch of the expression's kind.
GenerateExpressionNode ==
    /\ mark_outcome = "generating"
    /\ mark_agenda # << >>
    /\ isExpression(Head(mark_agenda))
    /\ IF Head(mark_agenda) \in code_generated
       THEN /\ mark_outcome' = "assertion_error"
            /\ mark_agenda' = << >>
            /\ UNCHANGED << code_generated, generations >>
       ELSE /\ code_generated' = code_generated \cup {Head(mark_agenda)}
            /\ generations' = CountGeneration(Head(mark_agenda))
            /\ mark_agenda' = MarkNodes[Head(mark_agenda)].children \o Tail(mark_agenda)
            /\ UNCHANGED mark_outcome
    /\ UNCHANGED << tryVars, cleanVars, constVars, cmpVars, litVars, reformVars, modVars, nextVars, condVars, initVars, runVars, gcVars, sliceVars >>

\* The request returns to its caller.
GenerationReturns ==
    /\ mark_outcome = "generating"
    /\ mark_agenda = << >>
    /\ mark_outcome' = "idle"
    /\ UNCHANGED << code_generated, generations, mark_agenda >>
    /\ UNCHANGED << tryVars, cleanVars, constVars, cmpVars, litVars, reformVars, modVars, nextVars, condVars, initVars, runVars, gcVars, sliceVars >>

InitMark ==
    /\ code_generated = {}
    /\ generations = [node \in DOMAIN MarkNodes |-> 0]
    /\ mark_agenda = << >>
    /\ mark_outcome = "idle"
    /\ IdleTry /\ IdleClean /\ IdleConst /\ IdleCmp /\ IdleLit /\ IdleReform /\ IdleModule /\ IdleNext /\ IdleCondExpr /\ IdleInit /\ IdleRun /\ IdleCondition /\ IdleSlice

NextMark ==
    \/ RequestGeneration
    \/ GenerateStatementNode
    \/ GenerateExpressionNode
    \/ GenerationReturns

SpecMark == InitMark /\ [][NextMark]_vars

\* C3: no node, expression or statement, has its code generated a second
\* time: the second request fails with the duplicate-generation assertion.
C3_NoNodeGeneratedTwice == \A node \in DOMAIN MarkNodes : generations[node] <= 1
(***************************************************************************)
(* The cleanup set and the whitelist of the try/finally expression.        *)
(***************************************************************************)
\* Expression and statement nodes: owned says whether the value of an
\* operand is a new reference; parts are the child expressions or the
\* statements of a branch; tried is the tried block of a try/finally
\* expression.
CNode(kind, owned, parts, tried) ==
    [kind |-> kind, owned |-> owned, parts |-> parts, tried |-> tried]

COperand(owned) == CNode("operand", owned, << >>, << >>)
CComparison(left, right) == CNode("comparison", FALSE, << left, right >>, << >>)
CTryFinally(tried, expression) == CNode("tryfinally", FALSE, << expression >>, tried)
CAssign(value) == CNode("assign", FALSE, << value >>, << >>)
COnly(value) == CNode("only", FALSE, << value >>, << >>)
CBranch(yes) == CNode("branch", FALSE, yes, << >>)

\* Work of the generator: what to do, for which node, into which temp name,
\* with which operand names, and whether the statement's sequence has a
\* statement or module, not an expression, as its parent.
CTask(do, node, to_name, names, checked) ==
    [do |-> do, node |-> node, to_name |-> to_name, names |-> names,
     checked |-> checked]

NoBoundary == [at |-> "none"]

NoRegionEnd == [ended |-> FALSE, previous |-> {}, after |-> {}]

CleanStep(todo) ==
    /\ clean_agenda' = todo \o Tail(clean_agenda)
    /\ UNCHANGED << tryVars, markVars, constVars, cmpVars, litVars, reformVars, modVars, nextVars, condVars, initVars, runVars, gcVars, sliceVars >>

CleanAt(dos, kinds) ==
    /\ clean_outcome = "generating"
    /\ clean_agenda # << >>
    /\ Head(clean_agenda).do \in dos
    /\ Head(clean_agenda).node.kind \in kinds

\* _generateStatementSequenceCode: generateStatementCode for each statement.
StatementTasks(statements, checked) ==
    [k \in 1..Len(statements) |->
        CTask("statement", statements[k], 0, << >>, checked)]

\* generateAssignmentVariableCode and generateStatementOnlyCode: the value
\* goes to a temp name, which the assignment takes over or the statement
\* releases.
GenerateValueStatement ==
    /\ CleanAt({"statement"}, {"assign", "only"})
    /\ LET task == Head(clean_agenda)
           tmp_name == temp_names + 1
       IN  /\ temp_names' = tmp_name
           /\ CleanStep(<< CTask("expression", task.node.parts[1], tmp_name, << >>, FALSE),
                           CTask("release", task.node, tmp_name, << >>, FALSE),
                           CTask("statement_end", task.node, 0, << >>, task.checked) >>)
    /\ boundary' = NoBoundary
    /\ region_end' = NoRegionEnd
    /\ UNCHANGED << cleanup, temp_whitelist, clean_outcome, regions >>

\* removeCleanupTempName when needsCleanup, and getReleaseCode.
ReleaseValue ==
    /\ CleanAt({"release"}, {"assign", "only"})
    /\ cleanup' = cleanup \ {Head(clean_agenda).to_name}
    /\ CleanStep(<< >>)
    /\ boundary' = NoBoundary
    /\ region_end' = NoRegionEnd
    /\ UNCHANGED << temp_whitelist, temp_names, clean_outcome, regions >>

\* generateBranchCode: the statements of the branch have the branch
\* statement above their sequence.
GenerateBranchStatement ==
    /\ CleanAt({"statement"}, {"branch"})
    /\ LET task == Head(clean_agenda)
       IN  CleanStep(StatementTasks(task.node.parts, TRUE) \o
                     << CTask("statement_end", task.node, 0, << >>, task.checked) >>)
    /\ boundary' = NoBoundary
    /\ region_end' = NoRegionEnd
    /\ UNCHANGED << cleanup, temp_whitelist, temp_names, clean_outcome, regions >>

\* generateStatementCode after _generateStatementCode: the check that every
\* temporary was dealt with, made unless the sequence's parent is an
\* expression.
StatementBoundary ==
    /\ CleanAt({"statement_end"}, {"assign", "only", "branch"})
    /\ boundary' = [at |-> "statement"]
    /\ region_end' = NoRegionEnd
    /\ IF Head(clean_agenda).checked /\ ~(cleanup = {} \/ cleanup = temp_whitelist)
       THEN /\ clean_outcome' = "assertion_error"
            /\ clean_agenda' = << >>
            /\ UNCHANGED << tryVars, markVars, constVars, cmpVars, litVars, reformVars, modVars, nextVars, condVars, initVars, runVars, gcVars, sliceVars >>
       ELSE /\ CleanStep(<< >>)
            /\ UNCHANGED clean_outcome
    /\ UNCHANGED << cleanup, temp_whitelist, temp_names, regions >>

\* generateStatementSequenceCode after its statements: no temporary is left.
SequenceBoundary ==
    /\ clean_outcome = "generating"
    /\ clean_agenda = << >>
    /\ boundary' = [at |-> "sequence"]
    /\ region_end' = NoRegionEnd
    /\ clean_outcome' = IF cleanup = {} THEN "done" ELSE "assertion_error"
    /\ UNCHANGED << cleanup, temp_whitelist, temp_names, clean_agenda, regions >>
    /\ UNCHANGED << tryVars, markVars, constVars, cmpVars, litVars, reformVars, modVars, nextVars, condVars, initVars, runVars, gcVars, sliceVars >>

\* An expression whose value is a new reference adds its to_name to the
\* cleanup set; a borrowed value does not.
GenerateOperand ==
    /\ CleanAt({"expression"}, {"operand"})
    /\ cleanup' = IF Head(clean_agenda).node.owned
                  THEN cleanup \cup {Head(clean_agenda).to_name}
                  ELSE cleanup
    /\ CleanStep(<< >>)
    /\ boundary' = NoBoundary
    /\ region_end' = NoRegionEnd
    /\ UNCHANGED << temp_whitelist, temp_names, clean_outcome, regions >>

\* generateComparisonExpressionCode: left and right go to temp names.
GenerateComparison ==
    /\ CleanAt({"expression"}, {"comparison"})
    /\ LET task == Head(clean_agenda)
           left_name == temp_names + 1
           right_name == temp_names + 2
       IN  /\ temp_names' = right_name
           /\ CleanStep(<< CTask("expression", task.node.parts[1], left_name, << >>, FALSE),
                           CTask("expression", task.node.parts[2], right_name, << >>, FALSE),
                           CTask("compare", task.node, task.to_name,
                                 << left_name, right_name >>, FALSE) >>)
    /\ boundary' = NoBoundary
    /\ region_end' = NoRegionEnd
    /\ UNCHANGED << cleanup, temp_whitelist, clean_outcome, regions >>

\* getComparisonExpressionCode: the operand names are released, the result
\* is a new reference.
EmitComparison ==
    /\ CleanAt({"compare"}, {"comparison"})
    /\ LET task == Head(clean_agenda)
       IN  cleanup' = (cleanup \ {task.names[1], task.names[2]}) \cup {task.to_name}
    /\ CleanStep(<< >>)
    /\ boundary' = NoBoundary
    /\ region_end' = NoRegionEnd
    /\ UNCHANGED << temp_whitelist, temp_names, clean_outcome, regions >>

\* generateTryFinallyCode with a to_name: the whitelist becomes the cleanup
\* set of the moment; then the tried block, then the expression.
TryFinallyExpressionStart ==
    /\ CleanAt({"expression"}, {"tryfinally"})
    /\ LET task == Head(clean_agenda)
       IN  CleanStep(StatementTasks(task.node.tried, FALSE) \o
                     << CTask("expression", task.node.parts[1], task.to_name, << >>, FALSE),
                        CTask("whitelist_end", task.node, 0, << >>, FALSE) >>)
    /\ temp_whitelist' = cleanup
    /\ regions' = << [previous |-> temp_whitelist, captured |-> cleanup] >> \o regions
    /\ boundary' = NoBoundary
    /\ region_end' = NoRegionEnd
    /\ UNCHANGED << cleanup, temp_names, clean_outcome >>

\* The end of generateTryFinallyCode with a to_name.
TryFinallyExpressionEnd ==
    /\ CleanAt({"whitelist_end"}, {"tryfinally"})
    /\ temp_whitelist' = {}
    /\ region_end' = [ended |-> TRUE, previous |-> Head(regions).previous,
                      after |-> temp_whitelist']
    /\ regions' = Tail(regions)
    /\ CleanStep(<< >>)
    /\ boundary' = NoBoundary
    /\ UNCHANGED << cleanup, temp_names, clean_outcome >>

\* The module bodies generated.
CleanOperands == {COperand(TRUE), COperand(FALSE)}

\* The shape buildComparisonNode gives a middle operand, and the same with
\* the assignment inside a branch statement.
KeeperOf(value) == CTryFinally(<< CAssign(value) >>, COperand(FALSE))

GuardedOf(value) == CTryFinally(<< CBranch(<< CAssign(value) >>) >>, COperand(FALSE))

CleanInner ==
    CleanOperands \cup
    { CComparison(left, KeeperOf(right)) : left \in CleanOperands, right \in CleanOperands }

CleanValues ==
    CleanInner \cup
    { CComparison(left, KeeperOf(value)) : left \in CleanOperands, value \in CleanInner }
    \cup
    { CComparison(left, GuardedOf(value)) : left \in CleanOperands, value \in CleanInner }

CleanBodies ==
    { << COnly(value) >> : value \in CleanValues } \cup
    { << CAssign(value), COnly(COperand(TRUE)) >> : value \in CleanValues } \cup
    { << CBranch(<< COnly(value) >>) >> : value \in CleanInner }

InitClean ==
    /\ cleanup = {}
    /\ temp_whitelist = {}
    /\ temp_names = 0
    /\ \E body \in CleanBodies : clean_agenda = StatementTasks(body, TRUE)
    /\ clean_outcome = "generating"
    /\ regions = << >>
    /\ region_end = NoRegionEnd
    /\ boundary = NoBoundary
    /\ IdleTry /\ IdleMark /\ IdleConst /\ IdleCmp /\ IdleLit /\ IdleReform /\ IdleModule /\ IdleNext /\ IdleCondExpr /\ IdleInit /\ IdleRun /\ IdleCondition /\ IdleSlice

NextClean ==
    \/ GenerateValueStatement
    \/ ReleaseValue
    \/ GenerateBranchStatement
    \/ StatementBoundary
    \/ SequenceBoundary
    \/ GenerateOperand
    \/ GenerateComparison
    \/ EmitComparison
    \/ TryFinallyExpressionStart
    \/ TryFinallyExpressionEnd

SpecCleanup == InitClean /\ [][NextClean]_vars

\* C4: at every statement boundary the cleanup set is empty, or inside a
\* try/finally expression equal to the whitelist captured when the
\* generation of that expression started; and when a try/finally expression
\* ends, the whitelist is what it was before that expression.
C4_CleanupAtBoundaries ==
    /\ boundary.at # "none" =>
          \/ cleanup = {}
          \/ regions # << >> /\ cleanup = Head(regions).captured
    /\ region_end.ended => region_end.after = region_end.previous

\* The check of generateStatementCode has passed at every boundary so far.
C4_NoAssertion == clean_outcome # "assertion_error"

(***************************************************************************)
(* The constant pool and the access to a constant at its use site.         *)
(***************************************************************************)
\* Constant values: the runtime type, the value of a number, the elements
\* of a tuple, list or set, the values of a dict (its keys are strings).
Constant(type, value, items) == [type |-> type, value |-> value, items |-> items]

CInt(value) == Constant("int", value, << >>)
CFloat(value) == Constant("float", value, << >>)
CBool(value) == Constant("bool", value, << >>)
CTuple(items) == Constant("tuple", 0, items)
CList(items) == Constant("list", 0, items)
CSet(items) == Constant("set", 0, items)
CDict(items) == Constant("dict", 0, items)

Containers == {"tuple", "list", "set", "dict"}

\* Constants.isMutable: lists, sets and dicts are, a tuple is when one of
\* its elements is.
RECURSIVE isMutable(_)
isMutable(constant) ==
    \/ constant.type \in {"list", "set", "dict"}
    \/ /\ constant.type = "tuple"
       /\ \E k \in 1..Len(constant.items) : isMutable(constant.items[k])

\* Constants.compareConstants: the same type, and the same value all the
\* way down.
RECURSIVE compareConstants(_, _)
compareConstants(a, b) ==
    /\ a.type = b.type
    /\ a.value = b.value
    /\ Len(a.items) = Len(b.items)
    /\ \A k \in 1..Len(a.items) : compareConstants(a.items[k], b.items[k])

\* The == of the constants themselves: numbers compare by value whatever
\* their type.
RECURSIVE PythonEquals(_, _)
PythonEquals(a, b) ==
    /\ \/ a.type = b.type
       \/ {a.type, b.type} \subseteq {"int", "float", "bool"}
    /\ a.value = b.value
    /\ Len(a.items) = Len(b.items)
    /\ \A k \in 1..Len(a.items) : PythonEquals(a.items[k], b.items[k])

HashModulus == 64

\* hash(): -1 stands for the TypeError of an unhashable value.
RECURSIVE PythonHash(_)
PythonHash(constant) ==
    IF constant.type \in {"list", "set", "dict"} THEN -1
    ELSE IF constant.type = "tuple"
    THEN IF \E k \in 1..Len(constant.items) : PythonHash(constant.items[k]) = -1
         THEN -1
         ELSE LET RECURSIVE combine(_)
                  combine(k) ==
                      IF k = 0 THEN 31
                      ELSE (combine(k - 1) * 3 + PythonHash(constant.items[k]))
                           % HashModulus
              IN  combine(Len(constant.items))
    ELSE constant.value % HashModulus

\* HashableConstant.__hash__
HashableConstantHash(constant) ==
    IF PythonHash(constant) = -1 THEN 7 ELSE PythonHash(constant)

\* The comparison of values by ==, where HashableConstant compares by
\* compareConstants.
LooseEquals(a, b) == PythonEquals(a, b)

\* HashableConstant.__eq__
HashableConstantEq(a, b) == compareConstants(a, b)

\* The entries of a dict keyed by HashableConstant that a key finds.
Found(entries, constant) ==
    { e \in entries :
        /\ HashableConstantHash(e.key) = HashableConstantHash(constant)
        /\ HashableConstantEq(e.key, constant) }

\* The identifier of a constant, made from its type and value.
namifyConstant(constant) == [name |-> "const", of |-> constant]

\* Context.getConstantCode: the identifier the pool holds for the constant,
\* a new entry when it holds none.
getConstantCode(entries, constant) ==
    IF Found(entries, constant) # {}
    THEN [identifier |-> (CHOOSE e \in Found(entries, constant) : TRUE).identifier,
          entries |-> entries]
    ELSE [identifier |-> namifyConstant(constant),
          entries |-> entries \cup {[key |-> constant,
                                    identifier |-> namifyConstant(constant)]}]

\* The deep copy decided by the first element alone.
first_is_mutable(constant) ==
    constant.items # << >> /\ isMutable(constant.items[1])

\* The loops over the elements that decide for the deep copy.
needs_deep(constant) ==
    \E k \in 1..Len(constant.items) : isMutable(constant.items[k])

\* The access with the tuple copied like the list.
AccessCopyingTuples(constant) ==
    IF constant.type \in Containers
    THEN [code |-> IF needs_deep(constant) THEN "DEEP_COPY" ELSE "LIST_COPY",
          pooled |-> TRUE, ref_count |-> 1]
    ELSE [code |-> "alias", pooled |-> TRUE, ref_count |-> 0]

\* getConstantAccessC: the code of the right hand side, whether it names the
\* pooled constant, and whether to_name owns a reference.
getConstantAccessC(constant) ==
    CASE constant.type = "dict" ->
            IF constant.items # << >>
            THEN IF needs_deep(constant)
                 THEN [code |-> "DEEP_COPY", pooled |-> TRUE, ref_count |-> 1]
                 ELSE [code |-> "PyDict_Copy", pooled |-> TRUE, ref_count |-> 1]
            ELSE [code |-> "PyDict_New", pooled |-> FALSE, ref_count |-> 1]
      [] constant.type = "set" ->
            IF constant.items # << >>
            THEN [code |-> "PySet_New", pooled |-> TRUE, ref_count |-> 1]
            ELSE [code |-> "PySet_New_NULL", pooled |-> FALSE, ref_count |-> 1]
      [] constant.type = "list" ->
            IF constant.items # << >>
            THEN IF needs_deep(constant)
                 THEN [code |-> "DEEP_COPY", pooled |-> TRUE, ref_count |-> 1]
                 ELSE [code |-> "LIST_COPY", pooled |-> TRUE, ref_count |-> 1]
            ELSE [code |-> "PyList_New", pooled |-> FALSE, ref_count |-> 1]
      [] constant.type = "tuple" ->
            IF needs_deep(constant)
            THEN [code |-> "DEEP_COPY", pooled |-> TRUE, ref_count |-> 1]
            ELSE [code |-> "alias", pooled |-> TRUE, ref_count |-> 0]
      [] OTHER -> [code |-> "alias", pooled |-> TRUE, ref_count |-> 0]

\* considerForDeferral over the constants still to consider: a constant not
\* yet contained gets its identifier, and its elements are considered.
RECURSIVE considerForDeferral(_, _)
considerForDeferral(todo, contained) ==
    IF todo = << >> THEN contained
    ELSE LET constant_value == Head(todo)
         IN  IF constant_value.type = "bool"
             THEN considerForDeferral(Tail(todo), contained)
             ELSE IF Found(contained, constant_value) # {}
             THEN considerForDeferral(Tail(todo), contained)
             ELSE considerForDeferral(
                      constant_value.items \o Tail(todo),
                      contained \cup {[key |-> constant_value,
                                       identifier |-> namifyConstant(constant_value)]})

\* A set as a sequence, in some order.
RECURSIVE SeqOf(_)
SeqOf(S) ==
    IF S = {} THEN << >>
    ELSE LET x == CHOOSE y \in S : TRUE IN << x >> \o SeqOf(S \ {x})

\* Use sites generated per module.
MaxUses == 2

ConstantValues ==
    { CInt(1), CFloat(1), CBool(1), CInt(2),
      CTuple(<< >>), CTuple(<< CInt(1) >>), CTuple(<< CFloat(1) >>),
      CTuple(<< CInt(1), CList(<< CInt(2) >>) >>),
      CTuple(<< CTuple(<< CList(<< >>) >>) >>),
      CList(<< >>), CList(<< CInt(1), CInt(2) >>),
      CList(<< CInt(1), CInt(2), CList(<< CInt(3) >>) >>),
      CSet(<< >>), CSet(<< CInt(1) >>),
      CDict(<< >>), CDict(<< CInt(1) >>), CDict(<< CInt(1), CList(<< >>) >>) }

\* A constant expression is generated: getConstantAccessC into a new name.
UseConstant ==
    /\ Len(const_lines) < MaxUses
    /\ \E constant \in ConstantValues :
          LET to_name == Len(const_lines) + 1
              access == getConstantAccessC(constant)
              got == getConstantCode(constants, constant)
          IN  /\ const_lines' = Append(const_lines,
                    [to_name |-> to_name, constant |-> constant,
                     code |-> access.code, pooled |-> access.pooled,
                     identifier |-> IF access.pooled THEN got.identifier
                                    ELSE namifyConstant(constant)])
              /\ constants' = IF access.pooled THEN got.entries ELSE constants
              /\ const_cleanup' = IF access.ref_count # 0
                                  THEN const_cleanup \cup {to_name}
                                  ELSE const_cleanup
    /\ UNCHANGED contained_constants
    /\ UNCHANGED << tryVars, markVars, cleanVars, cmpVars, litVars, reformVars, modVars, nextVars, condVars, initVars, runVars, gcVars, sliceVars >>

\* getConstantsDeclCode for the module's source file: the constants inside
\* the containers of the pool.
DeclareConstants ==
    /\ constants # {}
    /\ contained_constants' =
          considerForDeferral(
              SeqOf({ e.key : e \in { x \in constants : x.key.type \in Containers } }),
              {})
    /\ UNCHANGED << constants, const_lines, const_cleanup >>
    /\ UNCHANGED << tryVars, markVars, cleanVars, cmpVars, litVars, reformVars, modVars, nextVars, condVars, initVars, runVars, gcVars, sliceVars >>

InitConst ==
    /\ constants = {}
    /\ contained_constants = {}
    /\ const_lines = << >>
    /\ const_cleanup = {}
    /\ IdleTry /\ IdleMark /\ IdleClean /\ IdleCmp /\ IdleLit /\ IdleReform /\ IdleModule /\ IdleNext /\ IdleCondExpr /\ IdleInit /\ IdleRun /\ IdleCondition /\ IdleSlice

NextConst ==
    \/ UseConstant
    \/ DeclareConstants

SpecConst == InitConst /\ [][NextConst]_vars


PooledLines == { k \in 1..Len(const_lines) : const_lines[k].pooled }

\* C5: constants of the same runtime type and deep-equal value get the same
\* identifier and one pool entry, and constants of different runtime types
\* (the integer 1 and the float 1.0) get different identifiers and entries
\* of their own, in the pool and among the contained constants.
C5_InternedByTypeAndValue ==
    /\ \A i, j \in PooledLines :
          /\ compareConstants(const_lines[i].constant, const_lines[j].constant)
                => const_lines[i].identifier = const_lines[j].identifier
          /\ const_lines[i].constant.type # const_lines[j].constant.type
                => const_lines[i].identifier # const_lines[j].identifier
    /\ \A pool \in {constants, contained_constants} :
          /\ \A e1, e2 \in pool :
                /\ compareConstants(e1.key, e2.key) => e1 = e2
                /\ e1.key.type # e2.key.type => e1.identifier # e2.identifier
    /\ \A i \in PooledLines :
          Cardinality({ e \in constants :
              compareConstants(e.key, const_lines[i].constant) }) = 1

C5_Witness ==
    /\ \E i, j \in PooledLines :
          /\ const_lines[i].constant = CInt(1)
          /\ const_lines[j].constant = CFloat(1)
          /\ const_lines[i].identifier # const_lines[j].identifier
    /\ Cardinality(constants) = 2

\* C6 as stated: every constant container whose contents are all immutable
\* is aliased at its use site, with no copy call and no owned reference.
C6_ImmutableContainersAliased ==
    \A k \in 1..Len(const_lines) :
        /\ const_lines[k].constant.type \in Containers
        /\ ~ needs_deep(const_lines[k].constant)
        => /\ const_lines[k].code = "alias"
           /\ const_lines[k].to_name \notin const_cleanup

\* C6 amended: of the constant containers whose contents are all immutable
\* only the tuple is aliased without an owned reference; a list, set or dict
\* is copied from the pooled instance by a shallow copy call, or made new
\* when it is empty, and its destination is owned.
C6_OnlyTuplesAliased ==
    \A k \in 1..Len(const_lines) :
        LET line == const_lines[k]
            empty == line.constant.items = << >>
        IN  /\ line.constant.type \in Containers
            /\ ~ needs_deep(line.constant)
            => IF line.constant.type = "tuple"
               THEN /\ line.code = "alias"
                    /\ line.pooled
                    /\ line.to_name \notin const_cleanup
               ELSE /\ line.to_name \in const_cleanup
                    /\ line.pooled = ~ empty
                    /\ line.code =
                          CASE line.constant.type = "list" ->
                                  IF empty THEN "PyList_New" ELSE "LIST_COPY"
                            [] line.constant.type = "set" ->
                                  IF empty THEN "PySet_New_NULL" ELSE "PySet_New"
                            [] line.constant.type = "dict" ->
                                  IF empty THEN "PyDict_New" ELSE "PyDict_Copy"

C6_Witness ==
    \E i, j \in 1..Len(const_lines) :
        /\ const_lines[i].constant = CTuple(<< CInt(1) >>)
        /\ const_lines[i].code = "alias"
        /\ const_lines[j].constant = CList(<< CInt(1), CInt(2) >>)
        /\ const_lines[j].code = "LIST_COPY"
        /\ const_lines[j].to_name \in const_cleanup

\* C7: every use of a constant container with at least one mutable element
\* emits a deep copy of the pooled instance, and the destination is an owned
\* reference of the cleanup set.
C7_MutableElementsDeepCopied ==
    \A k \in 1..Len(const_lines) :
        /\ const_lines[k].constant.type \in Containers
        /\ \E n \in 1..Len(const_lines[k].constant.items) :
              isMutable(const_lines[k].constant.items[n])
        => /\ const_lines[k].code = "DEEP_COPY"
           /\ const_lines[k].pooled
           /\ const_lines[k].to_name \in const_cleanup

C7_Witness ==
    /\ Len(const_lines) = MaxUses
    /\ \A k \in 1..Len(const_lines) :
          /\ const_lines[k].constant =
                CList(<< CInt(1), CInt(2), CList(<< CInt(3) >>) >>)
          /\ const_lines[k].code = "DEEP_COPY"
          /\ const_lines[k].to_name \in const_cleanup

(***************************************************************************)
(* The re-formulation of a comparison chain, and the evaluation of the     *)
(* tree it builds.                                                         *)
(***************************************************************************)
ENode(kind, ix, op, subs) == [kind |-> kind, ix |-> ix, op |-> op, subs |-> subs]

\* buildNode of an operand of the source: operand ix of the chain.
Operand(ix) == ENode("operand", ix, "", << >>)
ExpressionTempVariableRef(variable) == ENode("temp_ref", variable, "", << >>)
StatementAssignmentVariable(variable, source) ==
    ENode("assign", variable, "", << source >>)
ExpressionTryFinally(tried, final, expression) ==
    ENode("try_finally", 0, "", << tried, final, expression >>)
makeComparisonNode(left, right, comparator) ==
    ENode("comparison", 0, comparator, << left, right >>)
ExpressionBoolAND(left, right) == ENode("and", 0, "", << left, right >>)

\* buildAndNode: the values joined from the right.
RECURSIVE buildAndNode(_)
buildAndNode(values) ==
    IF Len(values) = 1 THEN values[1]
    ELSE ExpressionBoolAND(Head(values), buildAndNode(Tail(values)))

\* The left operand of a later comparison taken from the source again.
OperandAgain(keeper_variable) == Operand(keeper_variable)

\* The left operand of a later comparison: a reference to the previously
\* saved right side.
KeeperReference(keeper_variable) == ExpressionTempVariableRef(keeper_variable)

\* The loop of buildComparisonNode over zip(node.ops, rights), entered for
\* comparator k with the result so far, the left operand and the keeper.
RECURSIVE ComparisonLoop(_, _, _, _, _)
ComparisonLoop(ops, k, result, left, keeper_variable) ==
    IF k > Len(ops) THEN result
    ELSE LET left_now == IF result # << >>
                         THEN KeeperReference(keeper_variable)
                         ELSE left
             \* "value_%d" % (rights.index(right)+2)
             keeper_now == IF k # Len(ops) THEN k + 1 ELSE 0
             right == Operand(k + 1)
             right_now ==
                 IF k # Len(ops)
                 THEN ExpressionTryFinally(
                          << StatementAssignmentVariable(keeper_now, right) >>,
                          << >>,
                          ExpressionTempVariableRef(keeper_now))
                 ELSE right
         IN  ComparisonLoop(ops, k + 1,
                 Append(result, makeComparisonNode(left_now, right_now, ops[k])),
                 left_now, keeper_now)

buildComparisonNode(ops) ==
    buildAndNode(ComparisonLoop(ops, 1, << >>, Operand(1), 0))

\* The rich comparison of two values, 1 for True and 0 for False.
Compare(op, a, b) ==
    CASE op = "Lt" -> IF a < b THEN 1 ELSE 0
      [] op = "LtE" -> IF a <= b THEN 1 ELSE 0
      [] op = "Eq" -> IF a = b THEN 1 ELSE 0
      [] op = "NotEq" -> IF a # b THEN 1 ELSE 0

MaxOperands == 3
MaxValue == 2
Comparators == {"Lt", "LtE", "Eq", "NotEq"}

ETask(do, node) == [do |-> do, node |-> node]

CmpAt(do, kinds) ==
    /\ cmp_phase = "evaluate"
    /\ cmp_work # << >>
    /\ Head(cmp_work).do = do
    /\ Head(cmp_work).node.kind \in kinds

CmpStep(work, stack, temps, log) ==
    /\ cmp_work' = work
    /\ cmp_stack' = stack
    /\ cmp_temps' = temps
    /\ cmp_log' = log
    /\ UNCHANGED << cmp_phase, cmp_operands, cmp_comparators, cmp_tree >>
    /\ UNCHANGED << tryVars, markVars, cleanVars, constVars, litVars, reformVars, modVars, nextVars, condVars, initVars, runVars, gcVars, sliceVars >>

\* The chain of the source is re-formulated.
BuildComparison ==
    /\ cmp_phase = "source"
    /\ cmp_phase' = "evaluate"
    /\ cmp_tree' = buildComparisonNode(cmp_comparators)
    /\ cmp_work' = << ETask("eval", buildComparisonNode(cmp_comparators)) >>
    /\ cmp_temps' = [k \in 1..Len(cmp_operands) |-> Undefined]
    /\ UNCHANGED << cmp_operands, cmp_comparators, cmp_stack, cmp_log >>
    /\ UNCHANGED << tryVars, markVars, cleanVars, constVars, litVars, reformVars, modVars, nextVars, condVars, initVars, runVars, gcVars, sliceVars >>

\* An operand of the source is evaluated.
EvalOperand ==
    /\ CmpAt("eval", {"operand"})
    /\ CmpStep(Tail(cmp_work),
               << cmp_operands[Head(cmp_work).node.ix] >> \o cmp_stack,
               cmp_temps,
               Append(cmp_log, Head(cmp_work).node.ix))

\* A temporary variable is read; reading one never assigned fails.
EvalTempRef ==
    /\ CmpAt("eval", {"temp_ref"})
    /\ IF cmp_temps[Head(cmp_work).node.ix] = Undefined
       THEN /\ cmp_phase' = "unbound"
            /\ UNCHANGED << cmp_operands, cmp_comparators, cmp_tree, cmp_work,
                            cmp_stack, cmp_temps, cmp_log >>
            /\ UNCHANGED << tryVars, markVars, cleanVars, constVars, litVars, reformVars, modVars, nextVars, condVars, initVars, runVars, gcVars, sliceVars >>
       ELSE CmpStep(Tail(cmp_work),
                    << cmp_temps[Head(cmp_work).node.ix] >> \o cmp_stack,
                    cmp_temps, cmp_log)

\* A try/finally expression: the tried statements, the final statements,
\* then the expression.
EvalTryFinally ==
    /\ CmpAt("eval", {"try_finally"})
    /\ LET node == Head(cmp_work).node
           run(statements) == [k \in 1..Len(statements) |->
                                  ETask("eval", statements[k])]
       IN  CmpStep(run(node.subs[1]) \o run(node.subs[2])
                       \o << ETask("eval", node.subs[3]) >> \o Tail(cmp_work),
                   cmp_stack, cmp_temps, cmp_log)

\* An assignment: the source is evaluated, then stored.
EvalAssignment ==
    /\ CmpAt("eval", {"assign"})
    /\ LET node == Head(cmp_work).node
       IN  CmpStep(<< ETask("eval", node.subs[1]), ETask("store", node) >>
                       \o Tail(cmp_work),
                   cmp_stack, cmp_temps, cmp_log)

StoreTemp ==
    /\ CmpAt("store", {"assign"})
    /\ CmpStep(Tail(cmp_work), Tail(cmp_stack),
               [cmp_temps EXCEPT ![Head(cmp_work).node.ix] = Head(cmp_stack)],
               cmp_log)

\* A comparison: the left operand, the right operand, then the comparison.
EvalComparison ==
    /\ CmpAt("eval", {"comparison"})
    /\ LET node == Head(cmp_work).node
       IN  CmpStep(<< ETask("eval", node.subs[1]), ETask("eval", node.subs[2]),
                      ETask("compare", node) >> \o Tail(cmp_work),
                   cmp_stack, cmp_temps, cmp_log)

CompareValues ==
    /\ CmpAt("compare", {"comparison"})
    /\ CmpStep(Tail(cmp_work),
               << Compare(Head(cmp_work).node.op, cmp_stack[2], cmp_stack[1]) >>
                   \o Tail(Tail(cmp_stack)),
               cmp_temps, cmp_log)

\* "and": the left value, and the right value only when the left is true.
EvalAnd ==
    /\ CmpAt("eval", {"and"})
    /\ LET node == Head(cmp_work).node
       IN  CmpStep(<< ETask("eval", node.subs[1]), ETask("and_right", node) >>
                       \o Tail(cmp_work),
                   cmp_stack, cmp_temps, cmp_log)

AndRight ==
    /\ CmpAt("and_right", {"and"})
    /\ IF Head(cmp_stack) = 0
       THEN CmpStep(Tail(cmp_work), cmp_stack, cmp_temps, cmp_log)
       ELSE CmpStep(<< ETask("eval", Head(cmp_work).node.subs[2]) >>
                        \o Tail(cmp_work),
                    Tail(cmp_stack), cmp_temps, cmp_log)

EvaluationDone ==
    /\ cmp_phase = "evaluate"
    /\ cmp_work = << >>
    /\ cmp_phase' = "done"
    /\ UNCHANGED << cmp_operands, cmp_comparators, cmp_tree, cmp_work,
                    cmp_stack, cmp_temps, cmp_log >>
    /\ UNCHANGED << tryVars, markVars, cleanVars, constVars, litVars, reformVars, modVars, nextVars, condVars, initVars, runVars, gcVars, sliceVars >>

InitCmp ==
    /\ cmp_phase = "source"
    /\ \E n \in 2..MaxOperands :
          /\ cmp_operands \in [1..n -> 0..MaxValue]
          /\ cmp_comparators \in [1..(n - 1) -> Comparators]
    /\ cmp_tree = << >>
    /\ cmp_work = << >>
    /\ cmp_stack = << >>
    /\ cmp_temps = << >>
    /\ cmp_log = << >>
    /\ IdleTry /\ IdleMark /\ IdleClean /\ IdleConst /\ IdleLit /\ IdleReform /\ IdleModule /\ IdleNext /\ IdleCondExpr /\ IdleInit /\ IdleRun /\ IdleCondition /\ IdleSlice

NextCmp ==
    \/ BuildComparison
    \/ EvalOperand
    \/ EvalTempRef
    \/ EvalTryFinally
    \/ EvalAssignment
    \/ StoreTemp
    \/ EvalComparison
    \/ CompareValues
    \/ EvalAnd
    \/ AndRight
    \/ EvaluationDone

SpecCmp == InitCmp /\ [][NextCmp]_vars

\* The comparisons of the chain that hold, each taken on the values of the
\* operands of the source.
Holds(k) == Compare(cmp_comparators[k], cmp_operands[k], cmp_operands[k + 1]) = 1

\* The operands a left to right evaluation reaches: all up to the right
\* operand of the first comparison that is false.
Reached ==
    LET false_ones == { k \in 1..Len(cmp_comparators) : ~ Holds(k) }
    IN  IF false_ones = {} THEN Len(cmp_operands)
        ELSE 1 + CHOOSE k \in false_ones : \A j \in false_ones : k <= j

\* C8: the tree of a comparison chain evaluates each operand at most once
\* and in source order, never reads a keeper before it is assigned, and
\* on completion has evaluated exactly the operands up to the first false
\* comparison and has the value of the conjunction of the comparisons.
C8_ChainEvaluatedOnce ==
    /\ cmp_phase # "unbound"
    /\ \A k \in 1..Len(cmp_log) : cmp_log[k] = k
    /\ cmp_phase = "done" =>
          /\ Len(cmp_log) = Reached
          /\ Len(cmp_stack) = 1
          /\ (cmp_stack[1] = 1) <=> (\A k \in 1..Len(cmp_comparators) : Holds(k))
          /\ cmp_stack[1] \in {0, 1}

C8_Witness ==
    /\ cmp_phase = "done"
    /\ Len(cmp_operands) = 3
    /\ cmp_comparators = << "Lt", "Lt" >>
    /\ ~ Holds(1)
    /\ cmp_log = << 1, 2 >>
    /\ cmp_temps[2] = cmp_operands[2]
    /\ cmp_stack = << 0 >>

\* The comparisons of the tree, in source order.
RECURSIVE ComparisonsOf(_)
ComparisonsOf(tree) ==
    IF tree.kind = "and"
    THEN ComparisonsOf(tree.subs[1]) \o ComparisonsOf(tree.subs[2])
    ELSE << tree >>

\* The temporary a right operand is kept in, 0 when it is not kept.
KeptIn(right) ==
    IF right.kind = "try_finally" THEN right.subs[3].ix ELSE 0

\* The final statements of the try/finally around a kept right operand
\* release its temporary.
ReleasesKeeper(right) ==
    \E k \in DOMAIN right.subs[2] :
        right.subs[2][k].kind = "release" /\ right.subs[2][k].ix = KeptIn(right)

\* C22: in the tree of a chain of n comparisons the first comparison has the
\* operands of the source, each later one reads the right operand of the one
\* before through the temporary it was kept in, the temporaries are n-1
\* different ones, and each is released: the tree holds a release of it, and
\* when the evaluation is done no temporary holds a value any more.
C22_TemporariesReleased ==
    cmp_phase \in {"evaluate", "done"} =>
        LET cs == ComparisonsOf(cmp_tree) IN
        /\ cs[1].subs[1] = Operand(1)
        /\ \A k \in DOMAIN cs :
              /\ k > 1 => cs[k].subs[1] = ExpressionTempVariableRef(KeptIn(cs[k - 1].subs[2]))
              /\ k < Len(cs) => /\ KeptIn(cs[k].subs[2]) # 0
                                /\ ReleasesKeeper(cs[k].subs[2])
              /\ \A j \in DOMAIN cs :
                    (j # k /\ j < Len(cs) /\ k < Len(cs))
                        => KeptIn(cs[j].subs[2]) # KeptIn(cs[k].subs[2])
        /\ cmp_phase = "done" => \A v \in DOMAIN cmp_temps : cmp_temps[v] = Undefined

\* What the tree does give: the operands and the temporaries as above, with
\* no release of a temporary anywhere.
C22_TemporariesChained ==
    cmp_phase \in {"evaluate", "done"} =>
        LET cs == ComparisonsOf(cmp_tree) IN
        /\ Len(cs) = Len(cmp_comparators)
        /\ cs[1].subs[1] = Operand(1)
        /\ \A k \in DOMAIN cs :
              /\ k > 1 => cs[k].subs[1] = ExpressionTempVariableRef(KeptIn(cs[k - 1].subs[2]))
              /\ k < Len(cs) => /\ KeptIn(cs[k].subs[2]) # 0
                                /\ cs[k].subs[2].subs[1][1].subs[1] = Operand(k + 1)
                                /\ cs[k].subs[2].subs[2] = << >>
              /\ k = Len(cs) => cs[k].subs[2] = Operand(k + 1)
              /\ \A j \in DOMAIN cs :
                    (j # k /\ j < Len(cs) /\ k < Len(cs))
                        => KeptIn(cs[j].subs[2]) # KeptIn(cs[k].subs[2])

\* A chain of two comparisons was evaluated to its end and the temporary
\* still holds the middle operand.
C22_StillHeld ==
    /\ cmp_phase = "done"
    /\ Len(cmp_comparators) = 2
    /\ cmp_temps[2] = cmp_operands[2]

(***************************************************************************)
(* Set and dict creation and the slice lookup: the lines emitted, and the  *)
(* run of the emitted lines.                                               *)
(***************************************************************************)
\* An emitted line: a call of the support library or of the C-API with the
\* name that receives its result, a check of a name with a branch to the
\* exception exit, or a release.  "fails" says when the call fails: "never",
\* "sometimes", or "always" for an insertion of an unhashable value.
Line(kind, op, name, fails) ==
    [kind |-> kind, op |-> op, name |-> name, fails |-> fails]

\* ErrorCodes.getErrorExitCode: if ( name == NULL ) goto exception_exit;
getErrorExitCode(check_name) ==
    << Line("check", "goto_exception_exit", check_name, "never") >>

\* ErrorCodes.getReleaseCodes: Py_DECREF of the names that need cleanup.
RECURSIVE getReleaseCodes(_, _)
getReleaseCodes(release_names, owned) ==
    IF release_names = << >> THEN << >>
    ELSE (IF Head(release_names) \in owned
          THEN << Line("release", "Py_DECREF", Head(release_names), "never") >>
          ELSE << >>)
         \o getReleaseCodes(Tail(release_names), owned)

\* The code of an element expression into to_name: a hashable constant, an
\* empty list (a new list per evaluation, which no set or dict key accepts),
\* or a call with its error exit.
ElementCode(to_name, element) ==
    CASE element = "constant" ->
            [lines |-> << Line("assign", "constant", to_name, "never") >>,
             owned |-> FALSE, hashable |-> TRUE]
      [] element = "list" ->
            [lines |-> << Line("assign", "PyList_New", to_name, "never") >>,
             owned |-> TRUE, hashable |-> FALSE]
      [] element = "call" ->
            [lines |-> << Line("call", "CALL_FUNCTION", to_name, "sometimes") >>
                       \o getErrorExitCode(to_name),
             owned |-> TRUE, hashable |-> TRUE]

Elements == {"constant", "list", "call"}
MaxElements == 2

LitNode(kind, elements, lower, upper) ==
    [kind |-> kind, elements |-> elements, lower |-> lower, upper |-> upper]

LitNodes ==
    { LitNode("set", elements, FALSE, FALSE) :
        elements \in UNION { [1..n -> Elements] : n \in 0..MaxElements } }
    \cup
    { LitNode(kind, elements, FALSE, FALSE) :
        kind \in {"tuple", "list"},
        elements \in UNION { [1..n -> Elements] : n \in 0..MaxElements } }
    \cup
    \* the pairs of a dict, each (key, value)
    { LitNode("dict", pairs, FALSE, FALSE) :
        pairs \in UNION { [1..n -> Elements \X Elements] : n \in 0..MaxElements } }
    \cup
    \* a slice lookup: whether the source, the lower and the upper value
    \* are owned references; the bounds may be absent
    { LitNode("slice", << source >>, lower, upper) :
        source \in {"constant", "call"},
        lower \in {"none", "constant", "call"},
        upper \in {"none", "constant", "call"} }

LitStep(todo, lines, owned) ==
    /\ lit_todo' = todo
    /\ lit_code' = lit_code \o lines
    /\ lit_cleanup' = owned
    /\ UNCHANGED << lit_phase, lit_node, lit_pc, lit_error, lit_null, lit_outcome >>
    /\ UNCHANGED << tryVars, markVars, cleanVars, constVars, cmpVars, reformVars, modVars, nextVars, condVars, initVars, runVars, gcVars, sliceVars >>

\* The insertion call as emitted: the result goes nowhere.
Insertion(op, hashable) ==
    << Line("call", op, "", IF hashable THEN "never" ELSE "always") >>

\* generateSetCreationCode up to its loop.
StartSetCreation ==
    /\ lit_phase = "source"
    /\ lit_node.kind = "set"
    /\ lit_phase' = "generate"
    /\ lit_todo' = lit_node.elements
    /\ lit_code' = << Line("assign", "PySet_New", "to_name", "never") >>
    /\ lit_cleanup' = {"to_name"}
    /\ UNCHANGED << lit_node, lit_pc, lit_error, lit_null, lit_outcome >>
    /\ UNCHANGED << tryVars, markVars, cleanVars, constVars, cmpVars, reformVars, modVars, nextVars, condVars, initVars, runVars, gcVars, sliceVars >>

\* One round of the loop of generateSetCreationCode.
SetElement ==
    /\ lit_phase = "generate"
    /\ lit_node.kind = "set"
    /\ lit_todo # << >>
    /\ LET element == ElementCode("set_element", Head(lit_todo))
       IN  LitStep(Tail(lit_todo),
                   element.lines
                   \o Insertion("PySet_Add", element.hashable)
                   \o (IF element.owned
                       THEN << Line("release", "Py_DECREF", "set_element", "never") >>
                       ELSE << >>),
                   lit_cleanup)

\* generateDictionaryCreationCode up to its loop.
StartDictionaryCreation ==
    /\ lit_phase = "source"
    /\ lit_node.kind = "dict"
    /\ lit_phase' = "generate"
    /\ lit_todo' = lit_node.elements
    /\ lit_code' = << Line("assign", "_PyDict_NewPresized", "to_name", "never") >>
    /\ lit_cleanup' = {"to_name"}
    /\ UNCHANGED << lit_node, lit_pc, lit_error, lit_null, lit_outcome >>
    /\ UNCHANGED << tryVars, markVars, cleanVars, constVars, cmpVars, reformVars, modVars, nextVars, condVars, initVars, runVars, gcVars, sliceVars >>

\* One round of the loop of generateDictionaryCreationCode: the value, the
\* key, the insertion, the releases.
DictionaryPair ==
    /\ lit_phase = "generate"
    /\ lit_node.kind = "dict"
    /\ lit_todo # << >>
    /\ LET value == ElementCode("dict_value", Head(lit_todo)[2])
           key == ElementCode("dict_key", Head(lit_todo)[1])
       IN  LitStep(Tail(lit_todo),
                   value.lines \o key.lines
                   \o Insertion("PyDict_SetItem", key.hashable)
                   \o (IF value.owned
                       THEN << Line("release", "Py_DECREF", "dict_value", "never") >>
                       ELSE << >>)
                   \o (IF key.owned
                       THEN << Line("release", "Py_DECREF", "dict_key", "never") >>
                       ELSE << >>),
                   lit_cleanup)

\* _areConstants: every element is a constant reference and none is mutable.
_areConstants(expressions) ==
    \A k \in DOMAIN expressions : expressions[k] = "constant"

\* The creation call of the element by element path.
SequenceNew(kind) == IF kind = "tuple" THEN "PyTuple_New" ELSE "PyList_New"

SequenceSetItem(kind) == IF kind = "tuple" THEN "PyTuple_SET_ITEM" ELSE "PyList_SET_ITEM"

\* generateTupleCreationCode up to its loop: the constant tuple, or the new
\* tuple that the destination owns.
generateTupleCreationCode ==
    /\ lit_phase = "source"
    /\ lit_node.kind = "tuple"
    /\ lit_phase' = "generate"
    /\ IF _areConstants(lit_node.elements)
       THEN /\ lit_todo' = << >>
            /\ lit_code' = << Line("assign", "constant", "to_name", "never") >>
            /\ lit_cleanup' = lit_cleanup
       ELSE /\ lit_todo' = lit_node.elements
            /\ lit_code' = << Line("assign", SequenceNew("tuple"), "to_name", "never") >>
            /\ lit_cleanup' = lit_cleanup \cup {"to_name"}
    /\ UNCHANGED << lit_node, lit_pc, lit_error, lit_null, lit_outcome >>
    /\ UNCHANGED << tryVars, markVars, cleanVars, constVars, cmpVars, reformVars, modVars, nextVars, condVars, initVars, runVars, gcVars, sliceVars >>

\* generateListCreationCode up to its loop: constant elements fail the
\* assertion.
generateListCreationCode ==
    /\ lit_phase = "source"
    /\ lit_node.kind = "list"
    /\ IF _areConstants(lit_node.elements)
       THEN /\ lit_phase' = "done"
            /\ lit_outcome' = "AssertionError"
            /\ UNCHANGED << lit_todo, lit_code, lit_cleanup >>
       ELSE /\ lit_phase' = "generate"
            /\ lit_todo' = lit_node.elements
            /\ lit_code' = << Line("assign", SequenceNew("list"), "to_name", "never") >>
            /\ lit_cleanup' = lit_cleanup \cup {"to_name"}
            /\ UNCHANGED lit_outcome
    /\ UNCHANGED << lit_node, lit_pc, lit_error, lit_null >>
    /\ UNCHANGED << tryVars, markVars, cleanVars, constVars, cmpVars, reformVars, modVars, nextVars, condVars, initVars, runVars, gcVars, sliceVars >>

\* One round of the loop of either: the element, the reference taken when
\* the element name does not need cleanup and the name out of the cleanup
\* set when it does, and the store.
SequenceElement ==
    /\ lit_phase = "generate"
    /\ lit_node.kind \in {"tuple", "list"}
    /\ lit_todo # << >>
    /\ LET element_name == lit_node.kind \o "_element"
           element == ElementCode(element_name, Head(lit_todo))
           generated == IF element.owned THEN lit_cleanup \cup {element_name}
                        ELSE lit_cleanup
           needs_cleanup == element_name \in generated
       IN  LitStep(Tail(lit_todo),
                   element.lines
                   \o (IF ~needs_cleanup
                       THEN << Line("incref", "Py_INCREF", element_name, "never") >>
                       ELSE << >>)
                   \o << Line("store", SequenceSetItem(lit_node.kind), element_name,
                              "never") >>,
                   IF needs_cleanup THEN generated \ {element_name} ELSE generated)

\* The slice expression: its operands, then getSliceLookupCode.
getSliceLookupCode ==
    /\ lit_phase = "source"
    /\ lit_node.kind = "slice"
    /\ LET source == ElementCode("source_name", lit_node.elements[1])
           bound(name, how) ==
               IF how = "none"
               THEN [lines |-> << >>, owned |-> FALSE, hashable |-> TRUE]
               ELSE ElementCode(name, how)
           lower == bound("lower_name", lit_node.lower)
           upper == bound("upper_name", lit_node.upper)
           owned == (IF source.owned THEN {"source_name"} ELSE {})
                    \cup (IF lower.owned THEN {"lower_name"} ELSE {})
                    \cup (IF upper.owned THEN {"upper_name"} ELSE {})
       IN  /\ lit_code' =
                 source.lines \o lower.lines \o upper.lines
                 \o << Line("call", "LOOKUP_SLICE", "to_name", "sometimes") >>
                 \o getReleaseCodes(<< "source_name", "lower_name", "upper_name" >>,
                                    owned)
                 \o getErrorExitCode("to_name")
           /\ lit_cleanup' = {"to_name"}
    /\ lit_phase' = "generate"
    /\ lit_todo' = << >>
    /\ UNCHANGED << lit_node, lit_pc, lit_error, lit_null, lit_outcome >>
    /\ UNCHANGED << tryVars, markVars, cleanVars, constVars, cmpVars, reformVars, modVars, nextVars, condVars, initVars, runVars, gcVars, sliceVars >>

\* The expression is generated; the emitted lines run.
LitGenerated ==
    /\ lit_phase = "generate"
    /\ lit_todo = << >>
    /\ lit_phase' = "run"
    /\ lit_pc' = 1
    /\ UNCHANGED << lit_node, lit_todo, lit_code, lit_cleanup, lit_error,
                    lit_null, lit_outcome >>
    /\ UNCHANGED << tryVars, markVars, cleanVars, constVars, cmpVars, reformVars, modVars, nextVars, condVars, initVars, runVars, gcVars, sliceVars >>

LitAt(kinds) ==
    /\ lit_phase = "run"
    /\ lit_pc \in 1..Len(lit_code)
    /\ lit_code[lit_pc].kind \in kinds

LitRun(error, null) ==
    /\ lit_pc' = lit_pc + 1
    /\ lit_error' = error
    /\ lit_null' = null
    /\ UNCHANGED << lit_phase, lit_node, lit_todo, lit_code, lit_cleanup,
                    lit_outcome >>
    /\ UNCHANGED << tryVars, markVars, cleanVars, constVars, cmpVars, reformVars, modVars, nextVars, condVars, initVars, runVars, gcVars, sliceVars >>

\* An assignment or a release: neither fails.
RunPlain ==
    /\ LitAt({"assign", "release", "incref", "store"})
    /\ LitRun(lit_error, lit_null)

RunCallOk ==
    /\ LitAt({"call"})
    /\ lit_code[lit_pc].fails # "always"
    /\ LitRun(lit_error, lit_null \ {lit_code[lit_pc].name})

\* The call fails: the error indicator is set and the result says so.
RunCallFail ==
    /\ LitAt({"call"})
    /\ lit_code[lit_pc].fails # "never"
    /\ LitRun(TRUE, IF lit_code[lit_pc].name # ""
                    THEN lit_null \cup {lit_code[lit_pc].name}
                    ELSE lit_null)

\* The check of a name: the branch to the exception exit, or the next line.
RunCheck ==
    /\ LitAt({"check"})
    /\ IF lit_code[lit_pc].name \in lit_null
       THEN /\ lit_phase' = "done"
            /\ lit_outcome' = "exception_exit"
            /\ UNCHANGED << lit_node, lit_todo, lit_code, lit_cleanup, lit_pc,
                            lit_error, lit_null >>
            /\ UNCHANGED << tryVars, markVars, cleanVars, constVars, cmpVars, reformVars, modVars, nextVars, condVars, initVars, runVars, gcVars, sliceVars >>
       ELSE LitRun(lit_error, lit_null)

\* The end of the lines: the expression has its value.
RunEnd ==
    /\ lit_phase = "run"
    /\ lit_pc = Len(lit_code) + 1
    /\ lit_phase' = "done"
    /\ lit_outcome' = "value"
    /\ UNCHANGED << lit_node, lit_todo, lit_code, lit_cleanup, lit_pc,
                    lit_error, lit_null >>
    /\ UNCHANGED << tryVars, markVars, cleanVars, constVars, cmpVars, reformVars, modVars, nextVars, condVars, initVars, runVars, gcVars, sliceVars >>

InitLit ==
    /\ lit_phase = "source"
    /\ lit_node \in LitNodes
    /\ lit_todo = << >>
    /\ lit_code = << >>
    /\ lit_cleanup = {}
    /\ lit_pc = 0
    /\ lit_error = FALSE
    /\ lit_null = {}
    /\ lit_outcome = "idle"
    /\ IdleTry /\ IdleMark /\ IdleClean /\ IdleConst /\ IdleCmp /\ IdleReform /\ IdleModule /\ IdleNext /\ IdleCondExpr /\ IdleInit /\ IdleRun /\ IdleCondition /\ IdleSlice

NextLit ==
    \/ StartSetCreation
    \/ SetElement
    \/ StartDictionaryCreation
    \/ DictionaryPair
    \/ generateTupleCreationCode
    \/ generateListCreationCode
    \/ SequenceElement
    \/ getSliceLookupCode
    \/ LitGenerated
    \/ RunPlain
    \/ RunCallOk
    \/ RunCallFail
    \/ RunCheck
    \/ RunEnd

SpecLit == InitLit /\ [][NextLit]_vars

\* The line after the releases that follow line p.
AfterReleases(p) ==
    LET later == { q \in (p + 1)..Len(lit_code) : lit_code[q].kind # "release" }
    IN  IF later = {} THEN 0
        ELSE CHOOSE q \in later : \A r \in later : q <= r

\* C9: every emitted call that can fail is followed, with nothing but the
\* releases of its arguments in between, by a check of its result that
\* branches to the exception exit.
C9_EveryFallibleCallChecked ==
    lit_phase \in {"run", "done"} =>
        \A p \in 1..Len(lit_code) :
            /\ lit_code[p].kind = "call"
            /\ lit_code[p].fails # "never"
            => /\ AfterReleases(p) # 0
               /\ lit_code[AfterReleases(p)].kind = "check"
               /\ lit_code[AfterReleases(p)].name = lit_code[p].name

\* The slice lookup and the calls of element expressions are checked.
C9_SliceLookupChecked ==
    lit_phase \in {"run", "done"} =>
        \A p \in 1..Len(lit_code) :
            /\ lit_code[p].kind = "call"
            /\ lit_code[p].op \in {"LOOKUP_SLICE", "CALL_FUNCTION"}
            => /\ AfterReleases(p) # 0
               /\ lit_code[AfterReleases(p)].kind = "check"
               /\ lit_code[AfterReleases(p)].name = lit_code[p].name

\* No expression yields a value while the error indicator is set.
C9_NoErrorLeftBehind ==
    lit_outcome = "value" => ~ lit_error

IsSequence == lit_node.kind \in {"tuple", "list"}

\* The lines of the element by element path that belong to element k: those
\* after the k-th element expression up to its store.
StoreLines == { p \in 1..Len(lit_code) : lit_code[p].kind = "store" }

\* The k-th store of the emitted lines.
StoreOf(k) ==
    CHOOSE p \in StoreLines : Cardinality({ q \in StoreLines : q <= p }) = k

\* C21: a tuple or list literal whose elements are all immutable constants
\* is generated as one access to a constant; any other one is created and
\* filled element by element, where an element that does not own a reference
\* has Py_INCREF right before its store and an owning one has none and is
\* out of the cleanup set, and the cleanup set afterwards is the set from
\* before plus the destination.
C21_ConstantsTakeFastPath ==
    (IsSequence /\ lit_phase \in {"generate", "run", "done"} /\ lit_todo = << >>) =>
        IF _areConstants(lit_node.elements)
        THEN /\ lit_code = << Line("assign", "constant", "to_name", "never") >>
             /\ lit_outcome # "AssertionError"
        ELSE /\ lit_code[1] = Line("assign", SequenceNew(lit_node.kind), "to_name", "never")
             /\ Cardinality(StoreLines) = Len(lit_node.elements)
             /\ \A k \in DOMAIN lit_node.elements :
                    (lit_code[StoreOf(k) - 1].kind = "incref")
                        <=> ~ ElementCode("", lit_node.elements[k]).owned
             /\ lit_cleanup = {"to_name"}

\* The same without the list of constants, which generateListCreationCode
\* refuses.
C21_ExceptListOfConstants ==
    (lit_node.kind = "list" /\ _areConstants(lit_node.elements))
    \/ C21_ConstantsTakeFastPath

\* A tuple of a constant and a call has run to its value, and a tuple of
\* constants was generated as a constant.
C21_ElementsReached ==
    /\ lit_node = LitNode("tuple", << "constant", "call" >>, FALSE, FALSE)
    /\ lit_phase = "done"
    /\ lit_outcome = "value"
    /\ Cardinality(StoreLines) = 2

(***************************************************************************)
(* buildTryExceptionNode: the re-formulation of a try/except statement     *)
(* with its handlers and its else block.                                   *)
(***************************************************************************)
RNode(kind, ix, subs) == [kind |-> kind, ix |-> ix, subs |-> subs]

\* None, where a statement sequence may be absent.
RNone == RNode("none", 0, << >>)

\* The source: handler k is on line HandlerLine(k); it has an exception
\* type or not, a name the exception is assigned to or not, and a body that
\* may reduce to no statement at all.
HandlerLine(k) == 1 + 2 * k

MaxHandlers == 3

SourceHandlers ==
    UNION { [1..n -> [typed : BOOLEAN, named : BOOLEAN, empty : BOOLEAN]] :
              n \in 1..MaxHandlers }

\* A handler can name the exception only when it has a type, and its body
\* is then never without statements.
WellFormed(handlers) ==
    \A k \in 1..Len(handlers) :
        handlers[k].named => handlers[k].typed /\ ~ handlers[k].empty

makeReraiseExceptionStatement ==
    RNode("sequence", 0, << RNode("raise", 0, << >>) >>)

\* The statements of handler k, and the sequence made of them.
HandlerBody(version, handlers, k) ==
    LET block == IF handlers[k].empty THEN RNone ELSE RNode("block", k, << >>)
        statements ==
            IF ~ handlers[k].named THEN << block >>
            ELSE IF version < 300
            THEN << RNode("assign_caught_value", k, << >>), block >>
            ELSE << RNode("assign_caught_value", k, << >>),
                    RNode("try_finally", k,
                          << block, RNode("sequence", k,
                                          << RNode("del", k, << >>) >>) >>) >>
        \* makeStatementsSequence with allow_none
        present == SelectSeq(statements, LAMBDA s : s # RNone)
    IN  IF present = << >> THEN RNone ELSE RNode("sequence", k, present)

\* A default handler anywhere is refused.
isDefaultAnywhere(handlers, k) == ~ handlers[k].typed

\* exception_types is None and the handler is not node.handlers[-1].
isDefaultNotLast(handlers, k) == ~ handlers[k].typed /\ k # Len(handlers)

\* source_ref.atLineNumber of the syntax error.
ErrorLine(full_compat, lineno) == IF full_compat THEN lineno - 1 ELSE lineno

\* The chain built from the first handler to the last: the last is tested
\* first.
RECURSIVE HandlingChainForward(_, _, _)
HandlingChainForward(built, k, exception_handling) ==
    LET j == Len(built) + 1 - k IN
    IF k = 0 THEN exception_handling
    ELSE HandlingChainForward(built, k - 1,
            IF ~ built[j].typed
            THEN built[j].handler_body
            ELSE RNode("sequence", j,
                       << RNode("conditional", j,
                                << RNode("exception_match", j, << >>),
                                   built[j].handler_body,
                                   exception_handling >>) >>))

\* Reraise by default; then, from the last handler to the first, a default
\* handler replaces what is there and a typed one tests ahead of it.
RECURSIVE HandlingChain(_, _, _)
HandlingChain(built, k, exception_handling) ==
    IF k = 0 THEN exception_handling
    ELSE HandlingChain(built, k - 1,
            IF ~ built[k].typed
            THEN built[k].handler_body
            ELSE RNode("sequence", k,
                       << RNode("conditional", k,
                                << RNode("exception_match", k, << >>),
                                   built[k].handler_body,
                                   exception_handling >>) >>))

Prelude ==
    << RNode("preserve_frame_exception", 0, << >>),
       RNode("publish_exception", 0, << >>) >>

\* The handling with the prelude, and whether the exception is published.
Published(version, exception_handling) ==
    IF exception_handling = RNone
    THEN IF version < 300
         THEN [handling |-> RNode("sequence", 0, Prelude), public_exc |-> TRUE]
         ELSE [handling |-> RNone, public_exc |-> FALSE]
    ELSE IF version < 300
         THEN [handling |-> [exception_handling EXCEPT !.subs = Prelude \o @],
               public_exc |-> TRUE]
         ELSE [handling |->
                  RNode("sequence", 0,
                        Prelude \o
                        << RNode("try_finally", 0,
                                 << exception_handling,
                                    RNode("sequence", 0,
                                          << RNode("restore_frame_exception",
                                                   0, << >>) >>) >>) >>),
               public_exc |-> TRUE]

StatementTryExcept(handling, public_exc) ==
    RNode("try_except", IF public_exc THEN 1 ELSE 0,
          << RNode("block", 0, << >>), handling >>)

\* The else block under an indicator the handling does not clear.
NoRaiseIndicatorKept(handling, public_exc) ==
    RNode("sequence", 0,
          << RNode("assign_indicator_true", 0, << >>),
             StatementTryExcept(handling, public_exc),
             RNode("conditional", 0,
                   << RNode("indicator_is_true", 0, << >>),
                      RNode("else_block", 0, << >>), RNone >>) >>)

\* The else block under the indicator that the tried block came to its end.
makeTryExceptNoRaise(handling, public_exc) ==
    LET cleared == RNode("assign_indicator_false", 0, << >>)
        \* mergeStatements with allow_none
        merged == IF handling = RNone THEN << cleared >>
                  ELSE << cleared >> \o handling.subs
    IN  RNode("sequence", 0,
              << RNode("assign_indicator_true", 0, << >>),
                 StatementTryExcept(RNode("sequence", 0, merged), public_exc),
                 RNode("conditional", 0,
                       << RNode("indicator_is_true", 0, << >>),
                          RNode("else_block", 0, << >>), RNone >>) >>)

\* One round of the loop over node.handlers.
BuildHandler ==
    /\ rx_phase = "handlers"
    /\ Len(rx_handlers) < Len(rx_source.handlers)
    /\ LET k == Len(rx_handlers) + 1 IN
       IF isDefaultNotLast(rx_source.handlers, k)
       THEN /\ rx_phase' = "syntax_error"
            /\ rx_error' = [reason |-> "default 'except:' must be last",
                            lineno |-> ErrorLine(rx_source.full_compat,
                                                 HandlerLine(k))]
            /\ UNCHANGED rx_handlers
       ELSE /\ rx_handlers' = Append(rx_handlers,
                  [typed |-> rx_source.handlers[k].typed,
                   handler_body |-> HandlerBody(rx_source.version,
                                                rx_source.handlers, k)])
            /\ UNCHANGED << rx_phase, rx_error >>
    /\ UNCHANGED << rx_source, rx_node >>
    /\ UNCHANGED << tryVars, markVars, cleanVars, constVars, cmpVars, litVars, modVars, nextVars, condVars, initVars, runVars, gcVars, sliceVars >>

\* After the loop: the handling, the prelude, and the node returned.
BuildTryExcept ==
    /\ rx_phase = "handlers"
    /\ Len(rx_handlers) = Len(rx_source.handlers)
    /\ LET chain == HandlingChain(rx_handlers, Len(rx_handlers),
                                  makeReraiseExceptionStatement)
           published == Published(rx_source.version, chain)
       IN  rx_node' = IF rx_source.orelse
                      THEN makeTryExceptNoRaise(published.handling,
                                                published.public_exc)
                      ELSE StatementTryExcept(published.handling,
                                              published.public_exc)
    /\ rx_phase' = "built"
    /\ UNCHANGED << rx_source, rx_handlers, rx_error >>
    /\ UNCHANGED << tryVars, markVars, cleanVars, constVars, cmpVars, litVars, modVars, nextVars, condVars, initVars, runVars, gcVars, sliceVars >>


(***************************************************************************)
(* The re-formulated statement run.  The tried block ends, returns or      *)
(* raises; a raised exception matches the type of a handler or not; the    *)
(* body of a handler and the else block end or raise.                      *)
(***************************************************************************)
\* The exception of the tried block, of a handler body, of the else block.
TriedException == "tried"
HandlerException == "handler"
ElseException == "else"

RunInputs(n) ==
    [tried : {"end", "return"}, matches : {[k \in 1..n |-> FALSE]},
     body_raises : {FALSE}, else_raises : BOOLEAN]
    \cup [tried : {"raise"}, matches : [1..n -> BOOLEAN],
          body_raises : BOOLEAN, else_raises : {FALSE}]

Event(what, k) == [what |-> what, k |-> k]

Ran(st, what, k) == [st EXCEPT !.trace = Append(@, Event(what, k))]

Raised(st, exception) == [st EXCEPT !.flow = "raise", !.exc = exception]

\* A statement of the tree executed: st holds the way control leaves, the
\* exception, the indicator and the blocks and tests run so far.
RECURSIVE Execute(_, _, _)
Execute(node, input, st) ==
    LET RECURSIVE sequence(_, _)
        sequence(k, s) ==
            IF k > Len(node.subs) \/ s.flow # "normal" THEN s
            ELSE sequence(k + 1, Execute(node.subs[k], input, s))
    IN
    CASE node.kind = "none" -> st
      [] node.kind = "sequence" -> sequence(1, st)
      [] node.kind = "block" /\ node.ix = 0 ->
            LET ran == Ran(st, "tried", 0) IN
            IF input.tried = "end" THEN ran
            ELSE IF input.tried = "return" THEN [ran EXCEPT !.flow = "return"]
            ELSE Raised(ran, TriedException)
      [] node.kind = "block" /\ node.ix # 0 ->
            IF input.body_raises
            THEN Raised(Ran(st, "handler", node.ix), HandlerException)
            ELSE Ran(st, "handler", node.ix)
      [] node.kind = "else_block" ->
            IF input.else_raises
            THEN Raised(Ran(st, "else", 0), ElseException)
            ELSE Ran(st, "else", 0)
      [] node.kind = "raise" -> [Ran(st, "reraise", 0) EXCEPT !.flow = "raise"]
      [] node.kind = "assign_indicator_true" -> [st EXCEPT !.indicator = TRUE]
      [] node.kind = "assign_indicator_false" -> [st EXCEPT !.indicator = FALSE]
      [] node.kind = "conditional" ->
            LET condition == node.subs[1]
                tested == IF condition.kind = "exception_match"
                          THEN Ran(st, "match", condition.ix) ELSE st
                truth == IF condition.kind = "exception_match"
                         THEN input.matches[condition.ix]
                         ELSE st.indicator
            IN  Execute(IF truth THEN node.subs[2] ELSE node.subs[3], input, tested)
      [] node.kind = "try_except" ->
            LET tried == Execute(node.subs[1], input, st) IN
            IF tried.flow = "raise"
            THEN Execute(node.subs[2], input,
                         [Ran(tried, "caught", 0) EXCEPT !.flow = "normal"])
            ELSE tried
      [] node.kind = "try_finally" ->
            LET tried == Execute(node.subs[1], input, st)
                final == Execute(node.subs[2], input, [tried EXCEPT !.flow = "normal"])
            IN  IF final.flow = "normal"
                THEN [final EXCEPT !.flow = tried.flow, !.exc = tried.exc]
                ELSE final
      [] OTHER -> Ran(st, node.kind, node.ix)

\* The statement built is run once.
RunStatement ==
    /\ rx_phase = "built"
    /\ rr_phase = "idle"
    /\ \E input \in RunInputs(Len(rx_source.handlers)) :
          /\ rr_input' = input
          /\ rr_result' = Execute(rx_node, input,
                                  [flow |-> "normal", exc |-> "",
                                   indicator |-> FALSE, trace |-> << >>])
    /\ rr_phase' = "ran"
    /\ UNCHANGED reformVars
    /\ UNCHANGED << tryVars, markVars, cleanVars, constVars, cmpVars, litVars, modVars, nextVars, condVars, initVars, gcVars, sliceVars >>

NoError == [reason |-> "", lineno |-> 0]

InitReform ==
    /\ rx_phase = "handlers"
    /\ rx_source \in { s \in [handlers : SourceHandlers, orelse : BOOLEAN,
                              full_compat : BOOLEAN, version : {270, 330}] :
                         WellFormed(s.handlers) }
    /\ rx_handlers = << >>
    /\ rx_error = NoError
    /\ rx_node = RNone
    /\ IdleTry /\ IdleMark /\ IdleClean /\ IdleConst /\ IdleCmp /\ IdleLit /\ IdleModule /\ IdleNext /\ IdleCondExpr /\ IdleInit /\ IdleRun /\ IdleCondition /\ IdleSlice

NextReform ==
    \/ BuildHandler
    \/ BuildTryExcept
    \/ RunStatement

SpecReform == InitReform /\ [][NextReform]_vars

\* The handlers without a type that are not the last one.
DefaultsNotLast ==
    { k \in 1..(Len(rx_source.handlers) - 1) : ~ rx_source.handlers[k].typed }

FirstDefaultNotLast ==
    CHOOSE k \in DefaultsNotLast : \A j \in DefaultsNotLast : k <= j

\* C12 as stated: a handler without a type that is not the last one ends
\* the re-formulation with the syntax error "default 'except:' must be
\* last" at the line of that handler and without a node; without such a
\* handler, a node is built and there is no error.
C12_DefaultExceptAtHandlerLine ==
    /\ rx_phase = "syntax_error" =>
          /\ DefaultsNotLast # {}
          /\ rx_error.reason = "default 'except:' must be last"
          /\ rx_error.lineno = HandlerLine(FirstDefaultNotLast)
          /\ rx_node = RNone
    /\ rx_phase = "built" =>
          /\ DefaultsNotLast = {}
          /\ rx_error = NoError
          /\ rx_node # RNone

\* C12 amended: the same, with the error at the line of the handler, or at
\* the line before it under full compatibility.
C12_DefaultExceptMustBeLast ==
    /\ rx_phase = "syntax_error" =>
          /\ DefaultsNotLast # {}
          /\ rx_error.reason = "default 'except:' must be last"
          /\ rx_error.lineno =
                IF rx_source.full_compat
                THEN HandlerLine(FirstDefaultNotLast) - 1
                ELSE HandlerLine(FirstDefaultNotLast)
          /\ rx_node = RNone
    /\ rx_phase = "built" =>
          /\ DefaultsNotLast = {}
          /\ rx_error = NoError
          /\ rx_node # RNone

\* A default handler ahead of a typed one is refused under full
\* compatibility, at the line before its own.
C12_Witness ==
    /\ rx_phase = "syntax_error"
    /\ Len(rx_source.handlers) = 2
    /\ ~ rx_source.handlers[1].typed
    /\ rx_source.full_compat
    /\ rx_error.lineno = HandlerLine(1) - 1
    /\ rx_node = RNone


\* What the run did, in order, and the places of one kind of it.
RunTrace == rr_result.trace

Places(what) == { p \in 1..Len(RunTrace) : RunTrace[p].what = what }

\* C25: a try/except with an else block runs the else block exactly when the
\* tried block came to its end without raising; the else block is then the
\* last thing run, after the try/except construct and with no handler
\* entered, and an exception it raises leaves the statement without a test
\* or a body of the handlers being run.
C25_ElseAfterTried ==
    (rr_phase = "ran" /\ rx_source.orelse) =>
        /\ Places("else") # {} <=> rr_input.tried = "end"
        /\ Cardinality(Places("else")) <= 1
        /\ Places("else") # {} =>
              /\ Places("else") = {Len(RunTrace)}
              /\ Places("tried") = {1}
              /\ Places("caught") = {}
              /\ Places("match") = {}
              /\ Places("handler") = {}
        /\ (rr_input.tried = "end" /\ rr_input.else_raises) =>
              /\ rr_result.flow = "raise"
              /\ rr_result.exc = ElseException
        /\ (rr_input.tried = "end" /\ ~ rr_input.else_raises) =>
              rr_result.flow = "normal"

\* The else block ran after the tried block and raised.
C25_Witness ==
    /\ rr_phase = "ran"
    /\ rx_source.orelse
    /\ rr_input.tried = "end"
    /\ rr_input.else_raises
    /\ Places("else") = {2}
    /\ rr_result.exc = ElseException

\* The tried block raised, a handler took the exception and ended: the
\* statement ended without the else block.
C25_HandledWitness ==
    /\ rr_phase = "ran"
    /\ rx_source.orelse
    /\ rr_input.tried = "raise"
    /\ Places("handler") # {}
    /\ rr_result.flow = "normal"
    /\ Places("else") = {}

\* The first handler in source order that takes the exception, 0 for none.
Takes(k) == ~ rx_source.handlers[k].typed \/ rr_input.matches[k]

FirstTaking ==
    IF \E k \in 1..Len(rx_source.handlers) : Takes(k)
    THEN CHOOSE k \in 1..Len(rx_source.handlers) :
             Takes(k) /\ \A j \in 1..(k - 1) : ~ Takes(j)
    ELSE 0

\* The handlers whose type was tested, in the order of the tests.
Tested == [p \in 1..Cardinality(Places("match")) |->
              RunTrace[CHOOSE q \in Places("match") :
                           Cardinality({ r \in Places("match") : r < q }) = p - 1].k]

\* C26: when the tried block raises, the types of the handlers are tested in
\* source order up to the first that matches; the body of that handler runs,
\* or the body of the default handler when no type matches, and no other
\* body; with no match and no default handler the exception is raised again.
C26_FirstMatchingHandler ==
    (rr_phase = "ran" /\ rr_input.tried = "raise") =>
        LET n == Len(rx_source.handlers)
            first == FirstTaking
            last_test == IF first = 0 THEN n
                         ELSE IF rx_source.handlers[first].typed THEN first
                         ELSE first - 1
        IN  /\ Tested = [p \in 1..last_test |-> p]
            /\ \A p \in Places("handler") : RunTrace[p].k = first
            /\ \A p \in Places("assign_caught_value") : RunTrace[p].k = first
            /\ Cardinality(Places("handler")) =
                  IF first # 0 /\ ~ rx_source.handlers[first].empty THEN 1 ELSE 0
            /\ \A p \in Places("handler") : \A q \in Places("match") : q < p
            /\ first = 0 =>
                  /\ Places("reraise") # {}
                  /\ rr_result.flow = "raise"
                  /\ rr_result.exc = TriedException
            /\ first # 0 =>
                  /\ Places("reraise") = {}
                  /\ IF rr_input.body_raises /\ ~ rx_source.handlers[first].empty
                     THEN rr_result.flow = "raise" /\ rr_result.exc = HandlerException
                     ELSE rr_result.flow = "normal"

\* Of three handlers the second and the third match: the second one ran.
C26_Witness ==
    /\ rr_phase = "ran"
    /\ rr_input.tried = "raise"
    /\ Len(rx_source.handlers) = 3
    /\ rr_input.matches = << FALSE, TRUE, TRUE >>
    /\ Tested = << 1, 2 >>
    /\ \E p \in Places("handler") : RunTrace[p].k = 2

\* No type matched and the default handler ran.
C26_DefaultWitness ==
    /\ rr_phase = "ran"
    /\ rr_input.tried = "raise"
    /\ Len(rx_source.handlers) = 2
    /\ ~ rx_source.handlers[2].typed
    /\ rr_input.matches = << FALSE, FALSE >>
    /\ \E p \in Places("handler") : RunTrace[p].k = 2

\* No type matched and there is no default handler: raised again.
C26_ReraiseWitness ==
    /\ rr_phase = "ran"
    /\ rr_input.tried = "raise"
    /\ FirstTaking = 0
    /\ rr_result.flow = "raise"
    /\ Places("reraise") # {}

(***************************************************************************)
(* Module code generation (CodeGeneration.generateModuleCode and           *)
(* ConstantCodes.getConstantsInitCode), run twice for the same module.     *)
(* The helper codes, the declarations and the constants are dictionaries   *)
(* of the context; the model keeps each as the sequence of its keys in     *)
(* iteration order.  An identifier is a sequence of letters, so that the   *)
(* order of strings and the order by length differ.                        *)
(***************************************************************************)
Names == { << 1 >>, << 2 >>, << 1, 1 >> }

\* The code names of the functions of the module.
FunctionNames == { << 2 >>, << 1, 1 >> }

\* Python's order of strings.
RECURSIVE StringLess(_, _)
StringLess(a, b) ==
    IF b = << >> THEN FALSE
    ELSE IF a = << >> THEN TRUE
    ELSE IF Head(a) # Head(b) THEN Head(a) < Head(b)
    ELSE StringLess(Tail(a), Tail(b))

\* An item of a dictionary: ( key, value ).
HelperCode(identifier) == [text |-> "helper", of |-> identifier]

Declaration(identifier) == [text |-> "decl", of |-> identifier]

ConstantInit(identifier) == [text |-> "init", of |-> identifier]

FunctionCode(identifier) == [text |-> "function", of |-> identifier]

FunctionDirectDecl(identifier) == [text |-> "direct_decl", of |-> identifier]

LoaderEntry(module_name) == [text |-> "inittab", of |-> module_name]

iterItems(keys, Value(_)) == [i \in DOMAIN keys |-> << keys[i], Value(keys[i]) >>]

\* The order of ( identifier, code ) tuples; the identifiers are the keys of a
\* dictionary, so no two items have the same one.
ItemLess(x, y) == StringLess(x[1], y[1])

_lengthKey(value) == << Len(value[2]), value[2] >>

LengthKeyLess(x, y) ==
    LET kx == _lengthKey(x)
        ky == _lengthKey(y)
    IN  kx[1] < ky[1] \/ (kx[1] = ky[1] /\ StringLess(kx[2], ky[2]))

\* sorted(): a stable sort of the items.
sorted(items, Less(_, _)) ==
    LET before(i) == { j \in DOMAIN items :
                          \/ Less(items[j], items[i])
                          \/ (~ Less(items[i], items[j]) /\ j < i) }
    IN  [p \in DOMAIN items |->
            items[CHOOSE i \in DOMAIN items : Cardinality(before(i)) + 1 = p]]

\* The functions called directly get a declaration in the module.
needsDirectCall(function_body) == Len(function_body) > 1

Distinct(keys) == \A i, j \in DOMAIN keys : keys[i] = keys[j] => i = j

Registrations == { s \in UNION { [1..n -> Names] : n \in 0..Cardinality(Names) } : Distinct(s) }

SameKeys(s, t) == Len(s) = Len(t) /\ { s[i] : i \in DOMAIN s } = { t[i] : i \in DOMAIN t }

\* dict.update(): the keys not yet there are added.
Update(dict, keys) ==
    dict \o SelectSeq(keys, LAMBDA k : \A i \in DOMAIN dict : dict[i] # k)

Swap(keys, i) ==
    [p \in DOMAIN keys |-> IF p = i THEN keys[i + 1] ELSE IF p = i + 1 THEN keys[i] ELSE keys[p]]

\* generateFunctionCreationCode: a function of the module is generated; its
\* maker code and its declaration are registered under its code name.
generateFunctionCreationCode(function_identifier) ==
    /\ mg_phase = "collect"
    /\ \A i \in DOMAIN used_functions : used_functions[i] # function_identifier
    /\ used_functions' = Append(used_functions, function_identifier)
    /\ helper_codes' = Append(helper_codes, function_identifier)
    /\ declarations' = Append(declarations, function_identifier)
    /\ UNCHANGED << mg_phase, mg_run, mg_constants, the_contained_constants, mg_output >>
    /\ UNCHANGED << tryVars, markVars, cleanVars, constVars, cmpVars, litVars, reformVars, nextVars, condVars, initVars, runVars, gcVars, sliceVars >>

\* A constant used by the module is registered with the context.
RegisterConstant(constant_identifier) ==
    /\ mg_phase = "collect"
    /\ \A i \in DOMAIN mg_constants : mg_constants[i] # constant_identifier
    /\ mg_constants' = Append(mg_constants, constant_identifier)
    /\ UNCHANGED << mg_phase, mg_run, used_functions, helper_codes, declarations,
                    the_contained_constants, mg_output >>
    /\ UNCHANGED << tryVars, markVars, cleanVars, constVars, cmpVars, litVars, reformVars, nextVars, condVars, initVars, runVars, gcVars, sliceVars >>

\* The second generation of the module registers the same things with a new
\* context; the dictionaries may then iterate in another order.
IterationOrder ==
    /\ mg_phase = "done"
    /\ mg_run = 1
    /\ \/ \E i \in 1..(Len(helper_codes) - 1) :
            /\ helper_codes' = Swap(helper_codes, i)
            /\ UNCHANGED << declarations, mg_constants >>
       \/ \E i \in 1..(Len(declarations) - 1) :
            /\ declarations' = Swap(declarations, i)
            /\ UNCHANGED << helper_codes, mg_constants >>
       \/ \E i \in 1..(Len(mg_constants) - 1) :
            /\ mg_constants' = Swap(mg_constants, i)
            /\ UNCHANGED << helper_codes, declarations >>
    /\ UNCHANGED << mg_phase, mg_run, used_functions, the_contained_constants, mg_output >>
    /\ UNCHANGED << tryVars, markVars, cleanVars, constVars, cmpVars, litVars, reformVars, nextVars, condVars, initVars, runVars, gcVars, sliceVars >>

ModuleCode(other_modules) ==
    LET function_codes == [i \in DOMAIN used_functions |-> FunctionCode(used_functions[i])]
        direct == SelectSeq(used_functions, needsDirectCall)
        function_decls == [i \in DOMAIN direct |-> FunctionDirectDecl(direct[i])]
        helpers == sorted(iterItems(helper_codes, HelperCode), ItemLess)
        decls == sorted(iterItems(declarations, Declaration), ItemLess)
    IN  [function_body_codes |-> function_codes \o [i \in DOMAIN helpers |-> helpers[i][2]],
         function_decl_codes |-> function_decls \o [i \in DOMAIN decls |-> decls[i][2]],
         metapath_loader_inittab |->
             [i \in DOMAIN other_modules |-> LoaderEntry(other_modules[i])],
         constants_init |-> << >>]

\* generateModuleCode, from the loop over the helper codes on.  The other
\* modules are an argument: the second generation gets the same modules.
generateModuleCode(other_modules) ==
    /\ \/ mg_phase = "collect" /\ mg_run = 1
       \/ /\ mg_phase = "done" /\ mg_run = 1
          /\ SameKeys(other_modules, [i \in DOMAIN mg_output[1].metapath_loader_inittab |->
                                         mg_output[1].metapath_loader_inittab[i].of])
    /\ mg_phase' = "module"
    /\ mg_run' = IF mg_phase = "collect" THEN 1 ELSE 2
    /\ mg_output' = Append(mg_output, ModuleCode(other_modules))
    /\ UNCHANGED << used_functions, helper_codes, declarations, mg_constants,
                    the_contained_constants >>
    /\ UNCHANGED << tryVars, markVars, cleanVars, constVars, cmpVars, litVars, reformVars, nextVars, condVars, initVars, runVars, gcVars, sliceVars >>

getConstantsInitCode ==
    /\ mg_phase = "module"
    /\ LET all_constants == Update(the_contained_constants, mg_constants)
           items == sorted(iterItems(all_constants, LAMBDA k : k), LengthKeyLess)
       IN  /\ the_contained_constants' = all_constants
           /\ mg_output' = [mg_output EXCEPT ![mg_run].constants_init =
                               [i \in DOMAIN items |-> ConstantInit(items[i][2])]]
    /\ mg_phase' = "done"
    /\ UNCHANGED << mg_run, used_functions, helper_codes, declarations, mg_constants >>
    /\ UNCHANGED << tryVars, markVars, cleanVars, constVars, cmpVars, litVars, reformVars, nextVars, condVars, initVars, runVars, gcVars, sliceVars >>

InitModule ==
    /\ mg_phase = "collect"
    /\ mg_run = 1
    /\ used_functions = << >>
    /\ helper_codes = << >>
    /\ declarations = << >>
    /\ mg_constants = << >>
    /\ the_contained_constants = << >>
    /\ mg_output = << >>
    /\ IdleTry /\ IdleMark /\ IdleClean /\ IdleConst /\ IdleCmp /\ IdleLit /\ IdleReform /\ IdleNext /\ IdleCondExpr /\ IdleInit /\ IdleRun /\ IdleCondition /\ IdleSlice

NextModule ==
    \/ \E function_identifier \in FunctionNames : generateFunctionCreationCode(function_identifier)
    \/ \E constant_identifier \in Names : RegisterConstant(constant_identifier)
    \/ \E other_modules \in Registrations : generateModuleCode(other_modules)
    \/ getConstantsInitCode
    \/ IterationOrder

SpecModule == InitModule /\ [][NextModule]_vars

GeneratedTwice == mg_phase = "done" /\ mg_run = 2

\* C13: code generation is deterministic: the two generations of the same
\* module give identical output, whatever the order in which the helper
\* codes, the declarations, the loader entries and the constants were given.
C13_EmissionOrderIndependent ==
    GeneratedTwice => mg_output[2] = mg_output[1]

\* What the sorting does give: the helper codes, the declarations and the
\* constant initializations come out the same, and the loader entries come out
\* in the order of the other modules given.
C13_SortedPartsAgree ==
    GeneratedTwice =>
        /\ mg_output[2].function_body_codes = mg_output[1].function_body_codes
        /\ mg_output[2].function_decl_codes = mg_output[1].function_decl_codes
        /\ mg_output[2].constants_init = mg_output[1].constants_init

C13_SortedWitness ==
    /\ GeneratedTwice
    /\ helper_codes = << << 2 >>, << 1, 1 >> >>
    /\ mg_output[1].function_body_codes[3] = HelperCode(<< 1, 1 >>)
    /\ Len(mg_constants) = 3
    /\ declarations = << << 1, 1 >>, << 2 >> >>
    /\ mg_constants # the_contained_constants
    /\ mg_output[1].constants_init = << ConstantInit(<< 1 >>), ConstantInit(<< 2 >>), ConstantInit(<< 1, 1 >>) >>
    /\ mg_output[2] = mg_output[1]

(***************************************************************************)
(* The fused lowering of "advance an iterator, break when it is exhausted" *)
(* against the general try/except lowering.  The statement is built by     *)
(* makeTryExceptSingleHandlerNode; generateTryExceptCode selects the       *)
(* lowering; the emitted code then runs once per loop iteration.           *)
(***************************************************************************)
ExceptionNames == {"StopIteration", "ValueError"}

PreserveFrameException == Node("preserve_frame_exception", << >>, << >>, FALSE)

RestoreFrameException == Node("restore_frame_exception", << >>, << >>, FALSE)

\* The node keeps the exception name in the condition of its conditional
\* statement and public_exc as an attribute.
makeTryExceptSingleHandlerNode(version, tried, exception_name, handler_body, public_exc) ==
    LET statements ==
            (IF public_exc THEN << PreserveFrameException, PublishException >> ELSE << >>)
            \o << Conditional(handler_body, << Reraise >>) >>
        handling ==
            IF version >= 300 /\ public_exc
            THEN << TryFinally(statements, << RestoreFrameException >>) >>
            ELSE statements
    IN  [node |-> TryExcept(tried, handling),
         exception_name |-> exception_name,
         handler_body |-> handler_body,
         public_exc |-> public_exc]

\* generateTryNextExceptStopIterationCode returns True: the tests it makes.
FusedSelected(st) == ~ st.public_exc /\ TryNextExceptStopIterationShape(st.node)

\* ExpressionComparisonExceptionMatch of the caught exception with the name.
ExceptionMatch(caught, exception_name) == caught = exception_name

\* The general lowering: the handler runs for any exception of the tried
\* block, and its conditional either runs the handler body or re-raises.
GeneralOutcome(st, event) ==
    IF event = "value" THEN "assigned"
    ELSE IF ExceptionMatch(event, st.exception_name)
         THEN (IF st.handler_body[1].kind = "break" THEN "break" ELSE "handled")
         ELSE "escape"

\* The fused support call: exhaustion leaves the loop, any other exception
\* goes to the exception escape.
FusedOutcome(event) ==
    IF event = "value" THEN "assigned"
    ELSE IF event = "StopIteration" THEN "break"
    ELSE "escape"

MakeSingleHandler ==
    /\ nx_phase = "source"
    /\ nx_statement' = makeTryExceptSingleHandlerNode(nx_input.version, nx_input.tried,
                           nx_input.exception_name, nx_input.handler_body,
                           nx_input.public_exc)
    /\ nx_phase' = "built"
    /\ UNCHANGED << nx_input, nx_lowering, nx_event, nx_emitted, nx_general >>
    /\ UNCHANGED << tryVars, markVars, cleanVars, constVars, cmpVars, litVars, reformVars, modVars, condVars, initVars, runVars, gcVars, sliceVars >>

SelectLowering ==
    /\ nx_phase = "built"
    /\ nx_lowering' = IF FusedSelected(nx_statement) THEN "fused" ELSE "general"
    /\ nx_phase' = "generated"
    /\ UNCHANGED << nx_input, nx_statement, nx_event, nx_emitted, nx_general >>
    /\ UNCHANGED << tryVars, markVars, cleanVars, constVars, cmpVars, litVars, reformVars, modVars, condVars, initVars, runVars, gcVars, sliceVars >>

\* One iteration of the loop around the statement.
Advance(event) ==
    /\ nx_phase \in {"generated", "running"}
    /\ LET emitted == IF nx_lowering = "fused" THEN FusedOutcome(event)
                      ELSE GeneralOutcome(nx_statement, event)
       IN  /\ nx_emitted' = emitted
           /\ nx_phase' = IF emitted \in {"assigned", "handled"} THEN "running" ELSE "left"
    /\ nx_event' = event
    /\ nx_general' = GeneralOutcome(nx_statement, event)
    /\ UNCHANGED << nx_input, nx_statement, nx_lowering >>
    /\ UNCHANGED << tryVars, markVars, cleanVars, constVars, cmpVars, litVars, reformVars, modVars, condVars, initVars, runVars, gcVars, sliceVars >>

InitNext ==
    /\ nx_phase = "source"
    /\ nx_input \in [version : PythonVersions,
                     tried : {<< AssignNext >>, << ExprOnly(TRUE) >>},
                     exception_name : ExceptionNames,
                     handler_body : {<< BreakLoop >>, << ExprOnly(FALSE) >>},
                     public_exc : BOOLEAN]
    /\ nx_statement = << >>
    /\ nx_lowering = ""
    /\ nx_event = ""
    /\ nx_emitted = ""
    /\ nx_general = ""
    /\ IdleTry /\ IdleMark /\ IdleClean /\ IdleConst /\ IdleCmp /\ IdleLit /\ IdleReform /\ IdleModule /\ IdleCondExpr /\ IdleInit /\ IdleRun /\ IdleCondition /\ IdleSlice

NextNext ==
    \/ MakeSingleHandler
    \/ SelectLowering
    \/ \E event \in {"value"} \cup ExceptionNames : Advance(event)

SpecNext == InitNext /\ [][NextNext]_vars

FusedRan == nx_lowering = "fused" /\ nx_phase \in {"running", "left"}

\* C14: the fused lowering is selected only for a handler that breaks on
\* iterator exhaustion, and where it is applied the emitted code continues as
\* the general lowering does: a non-exhaustion exception goes to the exception
\* escape and the loop is left only on exhaustion.
C14_FusedIsOnlyAnOptimization ==
    FusedRan =>
        /\ nx_statement.exception_name = "StopIteration"
        /\ nx_emitted = nx_general
        /\ (nx_emitted = "break" <=> nx_event = "StopIteration")

\* With a handler for StopIteration the two lowerings agree.
C14_AgreesForStopIteration ==
    (FusedRan /\ nx_statement.exception_name = "StopIteration") =>
        /\ nx_emitted = nx_general
        /\ (nx_emitted = "break" <=> nx_event = "StopIteration")

(***************************************************************************)
(* The conditional expression case of _generateExpressionCode: the result  *)
(* of either branch goes to the one destination to_name, and the branches  *)
(* are sub-expressions that give a new reference (the destination is then  *)
(* put in the cleanup set) or a borrowed one.  The emitted lines are run   *)
(* from the condition to the join label, counting the references the       *)
(* destination holds.                                                      *)
(***************************************************************************)
to_name == "tmp_cond_value"

OtherName == "tmp_other"

Ownerships == {"owned", "borrowed"}

Conditions == {"constant_true", "constant_false", "comparison"}

CondLine(op, tgt, tgt2, var) == [op |-> op, tgt |-> tgt, tgt2 |-> tgt2, var |-> var]

\* An emit with the context: the lines so far and the context after them.
Emission(codes, ctx) == [codes |-> codes, ctx |-> ctx]

needsCleanup(ctx, name) == name \in ctx.cleanup

addCleanupTempName(ctx, name) == [ctx EXCEPT !.cleanup = @ \cup {name}]

removeCleanupTempName(ctx, name) == [ctx EXCEPT !.cleanup = @ \ {name}]

\* A sub-expression generated into the destination: a new reference is the
\* destination's to release, a borrowed one is not.
ExpressionCode(ownership, name, e) ==
    IF ownership = "owned"
    THEN Emission(Append(e.codes, CondLine("assign_new_reference", NoneT, NoneT, name)),
                  addCleanupTempName(e.ctx, name))
    ELSE Emission(Append(e.codes, CondLine("assign_borrowed", NoneT, NoneT, name)),
                  e.ctx)

\* generateConditionCode: a constant condition is a jump, any other one a
\* branch to the true or the false target of the context.
ConditionCode(condition, e) ==
    Emission(Append(e.codes,
                 CASE condition = "constant_true" ->
                          CondLine("goto", e.ctx.true_target, NoneT, "")
                   [] condition = "constant_false" ->
                          CondLine("goto", e.ctx.false_target, NoneT, "")
                   [] OTHER ->
                          CondLine("branch", e.ctx.true_target, e.ctx.false_target, "")),
             e.ctx)

\* The branches joined without looking at the ownership of either.
JoinWithoutIncref(real_emit, collected, ctx, locals) ==
    Emission(real_emit
                 \o << CondLine("goto", locals.end_target, NoneT, ""),
                       CondLine("label", locals.false_target, NoneT, "") >>
                 \o collected,
             ctx)

\* The three cases of needs_ref1 and needs_ref2: the jump to the end, the
\* label of the no branch and the collected code of the no branch, with the
\* reference taken where the branch borrowed.
ReconcileOwnership(real_emit, collected, ctx, locals) ==
    LET join == << CondLine("goto", locals.end_target, NoneT, ""),
                   CondLine("label", locals.false_target, NoneT, "") >>
        incref == CondLine("incref", NoneT, NoneT, to_name)
    IN  IF locals.needs_ref1 /\ ~locals.needs_ref2
        THEN Emission(Append(real_emit \o join \o collected, incref),
                      addCleanupTempName(ctx, to_name))
        ELSE IF ~locals.needs_ref1 /\ locals.needs_ref2
        THEN Emission(Append(real_emit, incref) \o join \o collected, ctx)
        ELSE Emission(real_emit \o join \o collected, ctx)

\* The labels and targets of the conditional, its condition and the label of
\* the yes branch.
ConditionalStart ==
    /\ ce_phase = "start"
    /\ LET k == ce_context.label_count
           true_target == Label("condexpr_true", k + 1)
           false_target == Label("condexpr_false", k + 2)
           end_target == Label("condexpr_end", k + 3)
           ctx == [ce_context EXCEPT !.label_count = k + 3,
                                     !.true_target = true_target,
                                     !.false_target = false_target]
           e == ConditionCode(ce_before.condition, Emission(ce_real_emit, ctx))
       IN  /\ ce_locals' = [ce_locals EXCEPT
                               !.true_target = true_target,
                               !.false_target = false_target,
                               !.end_target = end_target,
                               !.old_true_target = ce_context.true_target,
                               !.old_false_target = ce_context.false_target]
           /\ ce_real_emit' = Append(e.codes, CondLine("label", true_target, NoneT, ""))
           /\ ce_context' = e.ctx
    /\ ce_phase' = "yes"
    /\ UNCHANGED << ce_before, ce_emit, ce_pc, ce_path, ce_refs >>
    /\ UNCHANGED << tryVars, markVars, cleanVars, constVars, cmpVars, litVars, reformVars, modVars, nextVars, initVars, runVars, gcVars, sliceVars >>

\* The yes branch; a destination it owns is taken out of the cleanup set
\* while the no branch is generated.
ExpressionYes ==
    /\ ce_phase = "yes"
    /\ LET e == ExpressionCode(ce_before.yes, to_name, Emission(ce_real_emit, ce_context))
           needs_ref1 == needsCleanup(e.ctx, to_name)
       IN  /\ ce_real_emit' = e.codes
           /\ ce_locals' = [ce_locals EXCEPT !.needs_ref1 = needs_ref1]
           /\ ce_context' = IF needs_ref1 THEN removeCleanupTempName(e.ctx, to_name)
                            ELSE e.ctx
    /\ ce_phase' = "no"
    /\ UNCHANGED << ce_before, ce_emit, ce_pc, ce_path, ce_refs >>
    /\ UNCHANGED << tryVars, markVars, cleanVars, constVars, cmpVars, litVars, reformVars, modVars, nextVars, initVars, runVars, gcVars, sliceVars >>

\* The no branch, collected apart.
ExpressionNo ==
    /\ ce_phase = "no"
    /\ LET e == ExpressionCode(ce_before.no, to_name, Emission(<< >>, ce_context))
       IN  /\ ce_emit' = e.codes
           /\ ce_locals' = [ce_locals EXCEPT !.needs_ref2 = needsCleanup(e.ctx, to_name)]
           /\ ce_context' = e.ctx
    /\ ce_phase' = "join"
    /\ UNCHANGED << ce_before, ce_real_emit, ce_pc, ce_path, ce_refs >>
    /\ UNCHANGED << tryVars, markVars, cleanVars, constVars, cmpVars, litVars, reformVars, modVars, nextVars, initVars, runVars, gcVars, sliceVars >>

\* The branches are put together, the end label is emitted and the targets
\* are put back; the emitted code is then entered at its first line.
ConditionalEnd ==
    /\ ce_phase = "join"
    /\ LET e == ReconcileOwnership(ce_real_emit, ce_emit, ce_context, ce_locals)
       IN  /\ ce_real_emit' = Append(e.codes,
                                     CondLine("label", ce_locals.end_target, NoneT, ""))
           /\ ce_context' = [e.ctx EXCEPT !.true_target = ce_locals.old_true_target,
                                          !.false_target = ce_locals.old_false_target]
    /\ ce_emit' = ce_real_emit'
    /\ ce_phase' = "run"
    /\ ce_pc' = 1
    /\ UNCHANGED << ce_before, ce_locals, ce_path, ce_refs >>
    /\ UNCHANGED << tryVars, markVars, cleanVars, constVars, cmpVars, litVars, reformVars, modVars, nextVars, initVars, runVars, gcVars, sliceVars >>

CondLanding(target) ==
    CHOOSE p \in 1..Len(ce_real_emit) :
        ce_real_emit[p].op = "label" /\ ce_real_emit[p].tgt = target

\* One line of the emitted code; the condition goes either way.
RunConditional ==
    /\ ce_phase = "run"
    /\ LET line == ce_real_emit[ce_pc] IN
       /\ \/ /\ line.op = "branch"
             /\ \E target \in {line.tgt, line.tgt2} : ce_pc' = CondLanding(target)
             /\ UNCHANGED << ce_refs, ce_path >>
          \/ /\ line.op = "goto"
             /\ ce_pc' = CondLanding(line.tgt)
             /\ UNCHANGED << ce_refs, ce_path >>
          \/ /\ line.op = "label"
             /\ ce_pc' = ce_pc + 1
             /\ ce_path' = IF line.tgt = ce_locals.true_target THEN "yes"
                           ELSE IF line.tgt = ce_locals.false_target THEN "no"
                           ELSE ce_path
             /\ UNCHANGED ce_refs
          \/ /\ line.op = "assign_new_reference"
             /\ ce_pc' = ce_pc + 1
             /\ ce_refs' = 1
             /\ UNCHANGED ce_path
          \/ /\ line.op = "assign_borrowed"
             /\ ce_pc' = ce_pc + 1
             /\ ce_refs' = 0
             /\ UNCHANGED ce_path
          \/ /\ line.op = "incref"
             /\ ce_pc' = ce_pc + 1
             /\ ce_refs' = ce_refs + 1
             /\ UNCHANGED ce_path
       /\ ce_phase' = IF ce_pc' > Len(ce_real_emit) THEN "joined" ELSE "run"
    /\ UNCHANGED << ce_before, ce_context, ce_locals, ce_real_emit, ce_emit >>
    /\ UNCHANGED << tryVars, markVars, cleanVars, constVars, cmpVars, litVars, reformVars, modVars, nextVars, initVars, runVars, gcVars, sliceVars >>

NoCondLocals ==
    [true_target |-> NoneT, false_target |-> NoneT, end_target |-> NoneT,
     old_true_target |-> NoneT, old_false_target |-> NoneT,
     needs_ref1 |-> FALSE, needs_ref2 |-> FALSE]

InitCondExpr ==
    /\ ce_phase = "start"
    /\ ce_before \in [condition : Conditions, yes : Ownerships, no : Ownerships,
                      cleanup : SUBSET {OtherName},
                      true_target : {NoneT, Label("branch_yes", 1)},
                      false_target : {NoneT, Label("branch_no", 2)}]
    /\ ce_context = [cleanup |-> ce_before.cleanup,
                     true_target |-> ce_before.true_target,
                     false_target |-> ce_before.false_target,
                     label_count |-> 2]
    /\ ce_locals = NoCondLocals
    /\ ce_real_emit = << >>
    /\ ce_emit = << >>
    /\ ce_pc = 0
    /\ ce_path = ""
    /\ ce_refs = 0
    /\ IdleTry /\ IdleMark /\ IdleClean /\ IdleConst /\ IdleCmp /\ IdleLit /\ IdleReform /\ IdleModule /\ IdleNext /\ IdleInit /\ IdleRun /\ IdleCondition /\ IdleSlice

NextCondExpr ==
    \/ ConditionalStart
    \/ ExpressionYes
    \/ ExpressionNo
    \/ ConditionalEnd
    \/ RunConditional

SpecCondExpr == InitCondExpr /\ [][NextCondExpr]_vars

\* The lines of a branch in the emitted code: from its label to the next
\* jump or label.
BranchLines(label) ==
    LET start == CondLanding(label)
        stop == CHOOSE p \in (start + 1)..Len(ce_real_emit) :
                    /\ ce_real_emit[p].op \in {"goto", "label"}
                    /\ \A q \in (start + 1)..(p - 1) :
                           ce_real_emit[q].op \notin {"goto", "label"}
    IN  (start + 1)..(stop - 1)

Increfs(lines) == { p \in lines : ce_real_emit[p].op = "incref" }

CondGenerated == ce_phase \in {"run", "joined"}

\* C20: when the branches of a conditional expression differ in ownership,
\* one reference increment is emitted, on the borrowing branch, and none when
\* they agree; either path reaches the join label with the destination
\* holding a reference exactly when it is in the cleanup set; after generation
\* the destination is in the cleanup set exactly when a branch gave an owned
\* reference, the other names of the cleanup set are as before, and the true
\* and false targets are those from before.
C20_OwnershipReconciled ==
    /\ CondGenerated =>
          /\ Cardinality(Increfs(BranchLines(ce_locals.true_target)))
                = IF ce_before.yes = "borrowed" /\ ce_before.no = "owned" THEN 1 ELSE 0
          /\ Cardinality(Increfs(BranchLines(ce_locals.false_target)))
                = IF ce_before.no = "borrowed" /\ ce_before.yes = "owned" THEN 1 ELSE 0
          /\ to_name \in ce_context.cleanup
                <=> (ce_before.yes = "owned" \/ ce_before.no = "owned")
          /\ ce_context.cleanup \ {to_name} = ce_before.cleanup
          /\ ce_context.true_target = ce_before.true_target
          /\ ce_context.false_target = ce_before.false_target
    /\ ce_phase = "joined" =>
          ce_refs = IF to_name \in ce_context.cleanup THEN 1 ELSE 0

\* The borrowing yes branch was run to the join label, the no branch being
\* the owning one.
C20_Witness ==
    /\ ce_phase = "joined"
    /\ ce_before.yes = "borrowed"
    /\ ce_before.no = "owned"
    /\ ce_before.true_target # NoneT
    /\ ce_path = "yes"
    /\ ce_refs = 1


(***************************************************************************)
(* The initialization code of the constants (ConstantCodes.                *)
(* getConstantsInitCode and _addConstantInitCode).  done and               *)
(* the_contained_constants are globals of the module: they outlive a call. *)
(* The sort is by the length and the text of the identifier.               *)
(***************************************************************************)
\* Calls of getConstantsInitCode, and constants used, in one run.
MaxCalls == 2
MaxPool == 2

\* The k-th key of a dict constant: a string.
DictKey(k) == Constant("str", k, << >>)

InitValues ==
    { CInt(1), CBool(1), CInt(2),
      CTuple(<< >>), CTuple(<< CInt(1) >>),
      CTuple(<< CInt(1), CList(<< CInt(2) >>) >>),
      CTuple(<< CTuple(<< CList(<< >>) >>) >>),
      CList(<< CInt(1), CInt(1) >>),
      CSet(<< CInt(1) >>),
      CDict(<< CInt(1) >>), CDict(<< CBool(1), CList(<< >>) >>) }

getConstantCodeName(entries, constant) == getConstantCode(entries, constant).identifier

NoIdentifier == [name |-> "none", of |-> CTuple(<< >>)]

\* A statement of the initialization code.
InitLine(op, identifier, key, value) ==
    [op |-> op, of |-> identifier, key |-> key, value |-> value]

\* Every identifier is taken as new.
neverDone(constant_identifier, done) == FALSE

\* The check against the global done.
isDone(constant_identifier, done) == constant_identifier \in done

\* _addConstantInitCode: st holds done and the statements emitted so far.
RECURSIVE _addConstantInitCode(_, _, _, _)
_addConstantInitCode(entries, constant_value, constant_identifier, st) ==
    IF isDone(constant_identifier, st.done) THEN st
    ELSE
    LET added == [st EXCEPT !.done = @ \cup {constant_identifier}]
        out(s, line) == [s EXCEPT !.lines = Append(@, line)]
        RECURSIVE elements(_, _)
        elements(count, s) ==
            IF count > Len(constant_value.items) THEN s
            ELSE LET element_value == constant_value.items[count]
                     element_name == getConstantCodeName(entries, element_value)
                     inner == _addConstantInitCode(entries, element_value,
                                                   element_name, s)
                 IN  elements(count + 1,
                              out(inner, InitLine("set_item", constant_identifier,
                                                  NoIdentifier, element_name)))
        RECURSIVE items(_, _)
        items(count, s) ==
            IF count > Len(constant_value.items) THEN s
            ELSE LET key == DictKey(count)
                     value == constant_value.items[count]
                     key_name == getConstantCodeName(entries, key)
                     with_key == _addConstantInitCode(entries, key, key_name, s)
                     value_name == getConstantCodeName(entries, value)
                     with_value == _addConstantInitCode(entries, value,
                                                        value_name, with_key)
                 IN  items(count + 1,
                           out(with_value, InitLine("set_item", constant_identifier,
                                                    key_name, value_name)))
    IN  CASE constant_value.type = "bool" -> added
          [] constant_value.type = "dict" ->
                items(1, out(added, InitLine("new", constant_identifier,
                                             NoIdentifier, NoIdentifier)))
          [] constant_value.type \in {"tuple", "list", "set"} ->
                elements(1, out(added, InitLine("new", constant_identifier,
                                                NoIdentifier, NoIdentifier)))
          [] OTHER -> out(added, InitLine("init", constant_identifier,
                                          NoIdentifier, NoIdentifier))

\* The text of an identifier, as Namify makes it: the type, then the value,
\* or the texts of the elements; a digest for a dict.
TypeLetter(type) ==
    CASE type = "int" -> 1 [] type = "float" -> 2 [] type = "bool" -> 3
      [] type = "str" -> 4 [] type = "tuple" -> 5 [] type = "list" -> 6
      [] type = "set" -> 7 [] type = "dict" -> 8

RECURSIVE Digest(_)
Digest(constant) ==
    LET RECURSIVE sum(_)
        sum(k) == IF k = 0 THEN 0 ELSE sum(k - 1) + Digest(constant.items[k])
    IN  (TypeLetter(constant.type) + constant.value + 3 * sum(Len(constant.items)))
        % HashModulus

RECURSIVE IdentifierText(_)
IdentifierText(constant) ==
    LET RECURSIVE texts(_)
        texts(k) == IF k = 0 THEN << >>
                    ELSE texts(k - 1) \o IdentifierText(constant.items[k])
    IN  CASE constant.type = "dict" -> << 8, Digest(constant) >>
          [] constant.type \in Containers ->
                << TypeLetter(constant.type) >> \o texts(Len(constant.items))
          [] OTHER -> << TypeLetter(constant.type), constant.value >>

\* The loop of getConstantsInitCode over the sorted items still to do.
RECURSIVE InitLoop(_, _, _)
InitLoop(entries, todo, st) ==
    IF todo = << >> THEN st
    ELSE InitLoop(entries, Tail(todo),
                  _addConstantInitCode(entries, Head(todo)[1],
                                       getConstantCodeName(entries, Head(todo)[1]), st))

\* A constant is used in the code of the module.
InitUse ==
    /\ Cardinality(ci_pool) < MaxPool
    /\ \E constant \in InitValues :
          /\ Found(ci_pool, constant) = {}
          /\ ci_pool' = getConstantCode(ci_pool, constant).entries
    /\ UNCHANGED << ci_contained, ci_done, ci_emitted, ci_calls >>
    /\ UNCHANGED << tryVars, markVars, cleanVars, constVars, cmpVars, litVars, reformVars, modVars, nextVars, condVars, runVars, gcVars, sliceVars >>

\* getConstantsDeclCode for the source file sets the_contained_constants.
InitDeclare ==
    /\ ci_pool # {}
    /\ ci_contained' =
          considerForDeferral(
              SeqOf({ e.key : e \in { x \in ci_pool : x.key.type \in Containers } }),
              {})
    /\ UNCHANGED << ci_pool, ci_done, ci_emitted, ci_calls >>
    /\ UNCHANGED << tryVars, markVars, cleanVars, constVars, cmpVars, litVars, reformVars, modVars, nextVars, condVars, runVars, gcVars, sliceVars >>

\* getConstantsInitCode: the_contained_constants is updated in place with
\* the constants of the context, and every constant of it is initialized.
InitConstants ==
    /\ ci_calls < MaxCalls
    /\ ci_pool # {}
    /\ LET all_constants == ci_contained \cup ci_pool
           items == sorted(iterItems(SeqOf({ e.key : e \in all_constants }),
                                     IdentifierText),
                           LengthKeyLess)
           st == InitLoop(all_constants, items,
                          [done |-> ci_done, lines |-> ci_emitted])
       IN  /\ ci_contained' = all_constants
           /\ ci_done' = st.done
           /\ ci_emitted' = st.lines
    /\ ci_calls' = ci_calls + 1
    /\ UNCHANGED ci_pool
    /\ UNCHANGED << tryVars, markVars, cleanVars, constVars, cmpVars, litVars, reformVars, modVars, nextVars, condVars, runVars, gcVars, sliceVars >>

InitInit ==
    /\ ci_pool = {}
    /\ ci_contained = {}
    /\ ci_done = {}
    /\ ci_emitted = << >>
    /\ ci_calls = 0
    /\ IdleTry /\ IdleMark /\ IdleClean /\ IdleConst /\ IdleCmp /\ IdleLit /\ IdleReform /\ IdleModule /\ IdleNext /\ IdleCondExpr /\ IdleRun /\ IdleCondition /\ IdleSlice

NextInit ==
    \/ InitUse
    \/ InitDeclare
    \/ InitConstants

SpecInit == InitInit /\ [][NextInit]_vars

\* The statements that make the object of an identifier.
Makes(identifier) ==
    { p \in 1..Len(ci_emitted) :
        ci_emitted[p].op \in {"init", "new"} /\ ci_emitted[p].of = identifier }

\* The statements that fill the container of an identifier.
Fills(identifier) ==
    { p \in 1..Len(ci_emitted) :
        ci_emitted[p].op = "set_item" /\ ci_emitted[p].of = identifier }

\* True and False are objects of the interpreter: no statement makes them.
NeedsNoStatement(identifier) == identifier.of.type = "bool"

\* After a call every constant of the pool and of the contained constants
\* is done, made by one statement when it needs one, and filled.
InitComplete ==
    \A e \in ci_contained \cup ci_pool :
        /\ e.identifier \in ci_done
        /\ NeedsNoStatement(e.identifier) \/ Cardinality(Makes(e.identifier)) = 1
        /\ Cardinality(Fills(e.identifier)) = Len(e.key.items)

\* C24: over all the calls of getConstantsInitCode, an identifier is
\* initialized by one statement at most and every constant of the pool and
\* of the contained constants that needs one has it; a statement that puts
\* an element, key or value into a container comes after the statement that
\* made the container, after the statement that made the element, and after
\* every statement that fills the element.
C24_InitOnceInOrder ==
    /\ [](\A p \in 1..Len(ci_emitted) :
            /\ ci_emitted[p].op \in {"init", "new"}
                  => Makes(ci_emitted[p].of) = {p}
            /\ ci_emitted[p].op = "set_item" =>
                  /\ \E q \in Makes(ci_emitted[p].of) : q < p
                  /\ \A part \in {ci_emitted[p].key, ci_emitted[p].value} \ {NoIdentifier} :
                        /\ NeedsNoStatement(part) \/ \E q \in Makes(part) : q < p
                        /\ \A q \in Fills(part) : q < p
                        /\ part \in ci_done)
    /\ [][ci_calls' # ci_calls => InitComplete']_vars

\* Two calls were made; the second found all but one constant done, and a
\* container of the first call holds an element that is a container.
C24_Witness ==
    /\ ci_calls = 2
    /\ \E p \in 1..Len(ci_emitted) :
          /\ ci_emitted[p].op = "set_item"
          /\ ci_emitted[p].value.of.type \in Containers
          /\ Fills(ci_emitted[p].value) # {}
    /\ \E a, b \in ci_pool :
          /\ a # b
          /\ \E k \in 1..Len(b.key.items) : b.key.items[k] = a.key
          /\ \E q \in Makes(a.identifier) : \E p \in Makes(b.identifier) : q < p


\* A container came first in the sort: the statement that makes it comes
\* before the one that makes its value, and the value is put in after both.
C24_ContainerFirst ==
    \E p \in 1..Len(ci_emitted) :
        /\ ci_emitted[p].op = "set_item"
        /\ \E q \in Makes(ci_emitted[p].value) :
              \E r \in Makes(ci_emitted[p].of) : r < q /\ q < p
        /\ \E e \in ci_pool : e.identifier = ci_emitted[p].value


(***************************************************************************)
(* generateConditionCode: the branch code of a condition, with the true    *)
(* and false branch targets of the context.  A condition carries the truth *)
(* it has when the emitted code runs.                                      *)
(***************************************************************************)
Cond(kind, value, has_inversion, subs) ==
    [kind |-> kind, value |-> value, has_inversion |-> has_inversion, subs |-> subs]

ConditionLeaves ==
    { Cond(kind, value, FALSE, << >>) :
        kind \in {"constant", "hasattr", "isinstance", "value"}, value \in BOOLEAN }
    \cup { Cond("comparison", value, has_inversion, << >>) :
             value \in BOOLEAN, has_inversion \in BOOLEAN }

SelectLeaves ==
    { Cond(kind, value, FALSE, << >>) :
        kind \in {"constant", "comparison"}, value \in BOOLEAN }

ConditionTrees ==
    ConditionLeaves
    \cup { Cond("not", FALSE, FALSE, << c >>) : c \in ConditionLeaves }
    \cup { Cond("not", FALSE, FALSE, << Cond("not", FALSE, FALSE, << c >>) >>) :
             c \in SelectLeaves }
    \cup { Cond("conditional", FALSE, FALSE, << c, y, n >>) :
             c \in SelectLeaves, y \in SelectLeaves, n \in SelectLeaves }
    \cup { Cond("not", FALSE, FALSE, << Cond("conditional", FALSE, FALSE, << c, y, n >>) >>) :
             c \in SelectLeaves, y \in SelectLeaves, n \in SelectLeaves }

\* The truth of the condition when the code runs.
RECURSIVE Truth(_)
Truth(condition) ==
    CASE condition.kind = "not" -> ~ Truth(condition.subs[1])
      [] condition.kind = "conditional" ->
            IF Truth(condition.subs[1]) THEN Truth(condition.subs[2])
            ELSE Truth(condition.subs[3])
      [] OTHER -> condition.value

\* context.getFalseBranchTarget without the call: the method, not a label.
BoundMethod == [t |-> "method", n |-> "getFalseBranchTarget", i |-> 0, ind |-> 0]

BranchLine(op, truth, tgt, tgt2) == [op |-> op, truth |-> truth, tgt |-> tgt, tgt2 |-> tgt2]

\* Generator.getGotoCode and getLabelCode into the lines of st.
CondGoto(st, target) ==
    [st EXCEPT !.code = Append(@, BranchLine("goto", FALSE, target, NoneT))]

CondLabel(st, label) ==
    [st EXCEPT !.code = Append(@, BranchLine("label", FALSE, label, NoneT))]

\* The branch codes of the Generator: to the true target of the context when
\* the test holds, to the false target when not.
getBranchingCode(st, truth) ==
    [st EXCEPT !.code = Append(@, BranchLine("branch", truth, st.true_target,
                                             st.false_target))]

CondAllocateLabel(st, name) ==
    [ st    |-> [st EXCEPT !.label_count = @ + 1],
      label |-> Label(name, st.label_count + 1) ]

\* A call noted: the targets at its entry, at its branch code, at its exit.
CallNoted(st, condition, inverted, entry, during) ==
    [st EXCEPT !.calls = Append(@,
        [kind |-> condition.kind, inverted |-> inverted,
         entry |-> << entry.true_target, entry.false_target >>,
         during |-> << during.true_target, during.false_target >>,
         exit |-> << st.true_target, st.false_target >>])]

\* The targets switched by reading both and setting both.
SwitchTargets(st) ==
    [st EXCEPT !.true_target = st.false_target, !.false_target = st.true_target]

\* The switch of the inverted comparison: the false target read is the
\* method itself.
SwitchTargetsInverted(st) ==
    [st EXCEPT !.true_target = BoundMethod, !.false_target = st.true_target]

\* The targets put back from the values read.
RestoreInverted(st, entry) ==
    [st EXCEPT !.true_target = entry.true_target, !.false_target = BoundMethod]

RestoreTargets(st, entry) ==
    [st EXCEPT !.true_target = entry.true_target,
               !.false_target = entry.false_target]

RECURSIVE generateConditionCode(_, _, _)
generateConditionCode(condition, inverted, st) ==
    IF st.error # "" THEN st
    ELSE
    CASE condition.kind = "constant" ->
            LET value == IF inverted THEN ~ condition.value ELSE condition.value
                done == CondGoto(st, IF value THEN st.true_target ELSE st.false_target)
            IN  CallNoted(done, condition, inverted, st, st)
      [] condition.kind = "comparison" ->
            IF inverted /\ condition.has_inversion
            THEN [st EXCEPT !.error = "AssertionError"]
            ELSE LET switched == IF inverted THEN SwitchTargetsInverted(st) ELSE st
                     branch == getBranchingCode(switched, condition.value)
                     done == IF inverted THEN RestoreInverted(branch, st) ELSE branch
                 IN  CallNoted(done, condition, inverted, st, switched)
      [] condition.kind = "not" ->
            LET switched == IF ~ inverted THEN SwitchTargets(st) ELSE st
                operand == generateConditionCode(condition.subs[1], FALSE, switched)
                done == IF ~ inverted THEN RestoreTargets(operand, st) ELSE operand
            IN  IF operand.error # "" THEN operand
                ELSE CallNoted(done, condition, inverted, st, switched)
      [] condition.kind = "conditional" ->
            LET select_true == CondAllocateLabel(st, "select_true")
                select_false == CondAllocateLabel(select_true.st, "select_false")
                select_end == CondAllocateLabel(select_false.st, "select_end")
                selecting == [select_end.st EXCEPT
                                 !.true_target = select_true.label,
                                 !.false_target = select_false.label]
                selected == RestoreTargets(
                                generateConditionCode(condition.subs[1], FALSE, selecting),
                                st)
                yes == CondGoto(generateConditionCode(condition.subs[2], FALSE,
                                    CondLabel(selected, select_true.label)),
                                select_end.label)
                no == CondLabel(generateConditionCode(condition.subs[3], FALSE,
                                    CondLabel(yes, select_false.label)),
                                select_end.label)
            IN  CallNoted(no, condition, inverted, st, selecting)
      [] condition.kind = "hasattr" ->
            CallNoted(getBranchingCode(st, condition.value), condition, inverted, st, st)
      [] condition.kind = "isinstance" ->
            IF inverted
            THEN [st EXCEPT !.error = "AssertionError"]
            ELSE CallNoted(getBranchingCode(st, condition.value),
                           condition, inverted, st, st)
      [] OTHER ->
            \* getConditionCheckFalseCode or getConditionCheckTrueCode
            LET truth == IF inverted THEN ~ condition.value ELSE condition.value
            IN  CallNoted(getBranchingCode(st, truth), condition, inverted, st, st)

EntryTrueTarget == Label("branch_yes", 1)
EntryFalseTarget == Label("branch_no", 2)

\* The call of generateConditionCode for the condition of a statement.
GenerateCondition ==
    /\ gc_phase = "source"
    /\ LET st == generateConditionCode(gc_condition, gc_inverted,
                     [true_target |-> gc_context.true_target,
                      false_target |-> gc_context.false_target,
                      label_count |-> gc_context.label_count,
                      code |-> << >>, calls |-> << >>, error |-> ""])
       IN  /\ gc_context' = [true_target |-> st.true_target,
                             false_target |-> st.false_target,
                             label_count |-> st.label_count]
           /\ gc_code' = st.code
           /\ gc_calls' = st.calls
           /\ gc_phase' = IF st.error # "" THEN st.error ELSE "generated"
    /\ UNCHANGED << gc_condition, gc_inverted, gc_outcome >>
    /\ UNCHANGED << tryVars, markVars, cleanVars, constVars, cmpVars, litVars, reformVars, modVars, nextVars, condVars, initVars, runVars, sliceVars >>

\* Where the code leaves to from line p: the target of the first jump that
\* names no line of the code.
RECURSIVE LeavesTo(_, _)
LeavesTo(lines, p) ==
    LET line == lines[p]
        target == IF line.op = "goto" THEN line.tgt
                  ELSE IF line.truth THEN line.tgt ELSE line.tgt2
        here == { q \in DOMAIN lines : lines[q].op = "label" /\ lines[q].tgt = target }
    IN  IF p > Len(lines) THEN NoneT
        ELSE IF line.op = "label" THEN LeavesTo(lines, p + 1)
        ELSE IF here # {} THEN LeavesTo(lines, CHOOSE q \in here : TRUE)
        ELSE target

\* The emitted code is run.
RunCondition ==
    /\ gc_phase = "generated"
    /\ gc_outcome' = LeavesTo(gc_code, 1)
    /\ gc_phase' = "ran"
    /\ UNCHANGED << gc_condition, gc_inverted, gc_context, gc_code, gc_calls >>
    /\ UNCHANGED << tryVars, markVars, cleanVars, constVars, cmpVars, litVars, reformVars, modVars, nextVars, condVars, initVars, runVars, sliceVars >>

InitCondition ==
    /\ gc_phase = "source"
    /\ gc_condition \in ConditionTrees
    /\ gc_inverted \in BOOLEAN
    /\ gc_context = [true_target |-> EntryTrueTarget, false_target |-> EntryFalseTarget,
                     label_count |-> 2]
    /\ gc_code = << >>
    /\ gc_calls = << >>
    /\ gc_outcome = NoneT
    /\ IdleTry /\ IdleMark /\ IdleClean /\ IdleConst /\ IdleCmp /\ IdleLit /\ IdleReform /\ IdleModule /\ IdleNext /\ IdleCondExpr /\ IdleInit /\ IdleRun /\ IdleSlice

NextCondition ==
    \/ GenerateCondition
    \/ RunCondition

SpecCondition == InitCondition /\ [][NextCondition]_vars

IsLabel(target) == target.t = "label"

\* C28: a call of generateConditionCode leaves the true and the false branch
\* target as they were at its entry, for every kind of condition and both
\* values of inverted; the branch code of an inverted comparison and of a
\* not that is not inverted is emitted with the two targets switched, each
\* of them a label.
C28_TargetsKept ==
    gc_phase \in {"generated", "ran"} =>
        /\ gc_context.true_target = EntryTrueTarget
        /\ gc_context.false_target = EntryFalseTarget
        /\ \A k \in DOMAIN gc_calls :
              LET call == gc_calls[k] IN
              /\ call.exit = call.entry
              /\ ((call.kind = "comparison" /\ call.inverted)
                    \/ (call.kind = "not" /\ ~ call.inverted)) =>
                    /\ call.during = << call.entry[2], call.entry[1] >>
                    /\ IsLabel(call.during[1]) /\ IsLabel(call.during[2])

\* The same but for the inverted comparison.
C28_ExceptInvertedComparison ==
    gc_phase \in {"generated", "ran"} =>
        \A k \in DOMAIN gc_calls :
            LET call == gc_calls[k] IN
            IF call.kind = "comparison" /\ call.inverted
            THEN /\ call.during = << BoundMethod, call.entry[1] >>
                 /\ call.exit = << call.entry[1], BoundMethod >>
                 /\ k = Len(gc_calls)
                 /\ gc_context.false_target = BoundMethod
            ELSE /\ call.exit = call.entry
                 /\ (call.kind = "not" /\ ~ call.inverted) =>
                       /\ call.during = << call.entry[2], call.entry[1] >>
                       /\ IsLabel(call.during[1]) /\ IsLabel(call.during[2])
                 /\ k = Len(gc_calls) =>
                       /\ gc_context.true_target = EntryTrueTarget
                       /\ gc_context.false_target = EntryFalseTarget

\* An inverted comparison was generated: the false target is the method.
C28_Reached ==
    /\ gc_phase = "generated"
    /\ gc_inverted
    /\ gc_condition.kind = "comparison"
    /\ gc_context.false_target = BoundMethod

\* C29: the code of a condition generated with inverted set leaves to the
\* true target exactly when the condition is false, and to the false target
\* exactly when it is true.
C29_InvertedBranches ==
    (gc_phase = "ran" /\ gc_inverted) =>
        gc_outcome = IF Truth(gc_condition) THEN EntryFalseTarget ELSE EntryTrueTarget

InvertedHonoured == {"constant", "not", "value"}

\* What holds: constants, not and the generic value are inverted; the
\* conditional expression and the attribute check branch as if inverted was
\* not set; the inverted comparison branches to no label when it holds.
C29_InvertedByKind ==
    (gc_phase = "ran" /\ gc_inverted) =>
        CASE gc_condition.kind \in InvertedHonoured ->
                gc_outcome = IF Truth(gc_condition) THEN EntryFalseTarget ELSE EntryTrueTarget
          [] gc_condition.kind \in {"conditional", "hasattr"} ->
                gc_outcome = IF Truth(gc_condition) THEN EntryTrueTarget ELSE EntryFalseTarget
          [] gc_condition.kind = "comparison" ->
                gc_outcome = IF Truth(gc_condition) THEN BoundMethod ELSE EntryTrueTarget

\* An attribute check that holds was generated inverted and has left to the
\* true target.
C29_Reached ==
    /\ gc_phase = "ran"
    /\ gc_inverted
    /\ gc_condition.kind = "hasattr"
    /\ Truth(gc_condition)
    /\ gc_outcome = EntryTrueTarget


\* Without inverted the code leaves to the true target exactly when the
\* condition is true.
C29_PlainBranches ==
    (gc_phase = "ran" /\ ~ gc_inverted) =>
        gc_outcome = IF Truth(gc_condition) THEN EntryTrueTarget ELSE EntryFalseTarget


\* ---------------------------------------------------------------------
\* The operands of slice lookup, slice assignment and slice deletion
\* (SpecSlice)
\* ---------------------------------------------------------------------

\* The bound expressions of a slice: absent, a small number constant, or an
\* expression that is or is not known to be indexable.
SliceBounds ==
    { [kind |-> "none", indexable |-> FALSE],
      [kind |-> "constant", indexable |-> TRUE],
      [kind |-> "expression", indexable |-> TRUE],
      [kind |-> "expression", indexable |-> FALSE] }

SliceOperations == { "lookup", "assign", "del" }

SliceVersions == { 270, 330 }

\* One emitted line: what it does and the operand it is about.
SliceLine(op, operand) == [op |-> op, operand |-> operand]

_slicing_available(version) == version < 300

decideSlicing(version, lower, upper) ==
    /\ _slicing_available(version)
    /\ (lower.kind = "none" \/ lower.indexable)
    /\ (upper.kind = "none" \/ upper.indexable)

\* generateExpressionCode for one operand.
SliceExpressionCode(operand) == << SliceLine("evaluate", operand) >>

\* One bound of generateSliceRangeIdentifier.
SliceIndexCode(bound, operand, limit) ==
    IF bound.kind = "none" THEN << SliceLine(limit, operand) >>
    ELSE IF bound.kind = "constant" THEN << SliceLine("index_value", operand) >>
    ELSE SliceExpressionCode(operand) \o << SliceLine("to_index", operand) >>

generateSliceRangeIdentifier(lower, upper) ==
    SliceIndexCode(lower, "lower", "min_index")
    \o SliceIndexCode(upper, "upper", "max_index")

\* generateExpressionsCode over the source and the two bounds.
SliceExpressionsCode(lower, upper) ==
    SliceExpressionCode("source")
    \o (IF lower.kind = "none" THEN << >> ELSE SliceExpressionCode("lower"))
    \o (IF upper.kind = "none" THEN << >> ELSE SliceExpressionCode("upper"))

\* The generic object path: the slice operation of Python 2, a slice object
\* and a subscript operation otherwise.
SliceGenericCode(version, lower, upper, operation) ==
    SliceExpressionsCode(lower, upper)
    \o (IF _slicing_available(version)
        THEN << SliceLine(operation, "slice") >>
        ELSE << SliceLine("slice_object", "slice"),
                SliceLine(operation, "subscript") >>)

generateSliceLookupCode(version, lower, upper) ==
    IF decideSlicing(version, lower, upper)
    THEN generateSliceRangeIdentifier(lower, upper)
         \o SliceExpressionCode("source")
         \o << SliceLine("lookup", "indexes") >>
    ELSE SliceGenericCode(version, lower, upper, "lookup")

generateAssignmentSliceCode(version, lower, upper) ==
    SliceExpressionCode("value")
    \o (IF decideSlicing(version, lower, upper)
        THEN SliceExpressionCode("source")
             \o generateSliceRangeIdentifier(lower, upper)
             \o << SliceLine("assign", "indexes") >>
        ELSE SliceGenericCode(version, lower, upper, "assign"))

generateDelSliceCode(version, lower, upper) ==
    IF decideSlicing(version, lower, upper)
    THEN SliceExpressionCode("source")
         \o generateSliceRangeIdentifier(lower, upper)
         \o << SliceLine("del", "indexes") >>
    ELSE SliceGenericCode(version, lower, upper, "del")

\* The code of the slice operation is generated.
GenerateSlice ==
    /\ sl_phase = "source"
    /\ sl_code' = CASE sl_operation = "lookup" ->
                          generateSliceLookupCode(sl_version, sl_lower, sl_upper)
                    [] sl_operation = "assign" ->
                          generateAssignmentSliceCode(sl_version, sl_lower, sl_upper)
                    [] sl_operation = "del" ->
                          generateDelSliceCode(sl_version, sl_lower, sl_upper)
    /\ sl_phase' = "generated"
    /\ UNCHANGED << sl_operation, sl_version, sl_lower, sl_upper, sl_trace >>
    /\ UNCHANGED << tryVars, markVars, cleanVars, constVars, cmpVars, litVars, reformVars, modVars, nextVars, condVars, initVars, runVars, gcVars >>

\* The operands evaluated by the lines up to and including the one at last.
RECURSIVE SliceEvaluated(_, _)
SliceEvaluated(lines, last) ==
    IF last = 0 THEN << >>
    ELSE SliceEvaluated(lines, last - 1)
         \o (IF lines[last].op = "evaluate" THEN << lines[last].operand >> ELSE << >>)

\* The emitted lines run: all of them, or up to a line that fails, which is
\* the evaluation of an operand or the conversion of a bound to an index.
RunSlice ==
    /\ sl_phase = "generated"
    /\ \E last \in DOMAIN sl_code :
          /\ \/ last = Len(sl_code)
             \/ sl_code[last].op \in { "evaluate", "to_index" }
          /\ sl_trace' = SliceEvaluated(sl_code, last)
    /\ sl_phase' = "ran"
    /\ UNCHANGED << sl_operation, sl_version, sl_lower, sl_upper, sl_code >>
    /\ UNCHANGED << tryVars, markVars, cleanVars, constVars, cmpVars, litVars, reformVars, modVars, nextVars, condVars, initVars, runVars, gcVars >>

InitSlice ==
    /\ IdleTry /\ IdleMark /\ IdleClean /\ IdleConst /\ IdleCmp /\ IdleLit /\ IdleReform /\ IdleModule /\ IdleNext /\ IdleCondExpr /\ IdleInit /\ IdleRun /\ IdleCondition
    /\ sl_phase = "source"
    /\ sl_operation \in SliceOperations
    /\ sl_version \in SliceVersions
    /\ sl_lower \in SliceBounds
    /\ sl_upper \in SliceBounds
    /\ sl_code = << >>
    /\ sl_trace = << >>

NextSlice == GenerateSlice \/ RunSlice

SpecSlice == InitSlice /\ [][NextSlice]_vars

\* Where the trace evaluates the operand, 0 when it does not.
SliceAt(operand) ==
    IF \E k \in DOMAIN sl_trace : sl_trace[k] = operand
    THEN CHOOSE k \in DOMAIN sl_trace : sl_trace[k] = operand
    ELSE 0

\* The run evaluates the first operand before the second: whenever the second
\* was evaluated, the first was evaluated earlier.
SliceBefore(first, second) ==
    SliceAt(second) # 0 => (SliceAt(first) # 0 /\ SliceAt(first) < SliceAt(second))

\* C30: in slice lookup, slice assignment and slice deletion the run
\* evaluates the sliced source before the lower and the upper bound, and the
\* lower bound before the upper, on the integer-index path and on the generic
\* object path alike.
C30_SourceBeforeBounds ==
    sl_phase = "ran" =>
        /\ SliceBefore("source", "lower")
        /\ SliceBefore("source", "upper")
        /\ (sl_lower.kind = "expression" => SliceBefore("lower", "upper"))

\* What the code does give: that order everywhere but in the slice lookup on
\* the integer-index path, where the bounds are evaluated before the source.
C30_ExceptIndexedLookup ==
    sl_phase = "ran" =>
        /\ sl_lower.kind = "expression" => SliceBefore("lower", "upper")
        /\ IF sl_operation = "lookup" /\ decideSlicing(sl_version, sl_lower, sl_upper)
           THEN /\ sl_lower.kind = "expression" => SliceBefore("lower", "source")
                /\ sl_upper.kind = "expression" => SliceBefore("upper", "source")
           ELSE /\ SliceBefore("source", "lower")
                /\ SliceBefore("source", "upper")

\* A slice lookup on the integer-index path has evaluated its lower bound,
\* which failed, so that the source was never evaluated.
C30_Reached ==
    /\ sl_phase = "ran"
    /\ sl_operation = "lookup"
    /\ decideSlicing(sl_version, sl_lower, sl_upper)
    /\ sl_trace = << "lower" >>

====
